---- MODULE Spec2Model ----
(***************************************************************************)
(* A model of the hybrid clause-assessment engine of DocsUProof            *)
(* (src/agent/rule_engine.py): assess_clause_legality_hybrid, the oracle   *)
(* wrapper call_llm_for_clause, the numeric extractor and evaluate_contract.*)
(*                                                                         *)
(* Python values are encoded as follows.                                   *)
(*   - A value that may be None is an option: <<>> is None, <<v>> is v.    *)
(*   - A dict is a function whose DOMAIN is the set of its keys; the empty *)
(*     dict is the empty function <<>>.                                    *)
(*   - A text is a sequence of lines (the text is its lines joined by a    *)
(*     newline); a regular expression of the source is the set of lines of *)
(*     the vocabulary it matches ("." does not cross a newline), computed   *)
(*     with the source's own patterns.                                     *)
(*   - A human-readable reason is a record of its message template and the *)
(*     values formatted into it.                                           *)
(***************************************************************************)
EXTENDS Integers, Sequences, FiniteSets, TLC

(***************************************************************************)
(* Python values                                                           *)
(***************************************************************************)
None == <<>>
Some(v) == <<v>>
IsNone(x) == x = <<>>
Val(x) == x[1]

EmptyDict == <<>>

\* d.get(k, default)
Get(d, k, default) == IF k \in DOMAIN d THEN d[k] ELSE default

\* d[k] = v
WithKey(d, k, v) == [x \in (DOMAIN d) \cup {k} |-> IF x = k THEN v ELSE d[x]]

\* bool(x) for an optional number: None and 0 are falsy
TruthyNum(x) == ~IsNone(x) /\ Val(x) # 0

Min(S) == CHOOSE x \in S : \A y \in S : x <= y

RECURSIVE SumSeq(_)
SumSeq(s) == IF s = <<>> THEN 0 ELSE Head(s) + SumSeq(Tail(s))

(***************************************************************************)
(* The rule tables (pure data)                                             *)
(***************************************************************************)
STATE_RULES ==
    [ NSW |-> [ bond |-> [max_weeks |-> 4],
                break_lease_fee |-> [max_weeks |-> 4],
                rent_increase |-> [min_notice_days |-> 60, max_frequency_months |-> 12],
                entry_notice_days |-> [routine_inspection |-> 7],
                eviction |-> [minimum_notice_days |-> 90] ],
      VIC |-> [ bond |-> [max_weeks |-> 4],
                rent_increase |-> [min_notice_days |-> 60, max_frequency_months |-> 12],
                entry_notice_days |-> [routine_inspection |-> 24],
                eviction |-> [minimum_notice_days |-> 60] ] ]

FAIRNESS_THRESHOLDS == [penalty_weeks_upper_bound |-> 2]

(***************************************************************************)
(* The vocabulary of clause lines, and the source's regular expressions as *)
(* the sets of lines they match.                                           *)
(***************************************************************************)
L_ACCESS  == "Landlord has unrestricted access."
L_REPAIRS == "All repairs are paid by the tenant, and the tenant must pay all legal fees."
L_REFUND  == "There is no refund of the bond."
L_TERMIN  == "Landlord may terminate at any time without notice."
L_ENTER   == "Landlord may enter the property for inspections at any time without notice."
L_ENTRY   == "Entry requires 5 days notice."
L_BOND6   == "Tenant must pay bond of 6 weeks' rent."
L_FEE     == "The fee is $3,000.00."
L_RENT    == "Landlord may increase rent every 6 months with 30 days' notice."
L_PENALTY == "If tenant breaks lease, tenant pays 8 weeks of rent as penalty."

\* pattern.search(text) / re.search(pattern, text): some line matches
Search(pattern, text) == \E i \in DOMAIN text : text[i] \in pattern

FAIRNESS_PATTERNS ==
    << [pattern |-> {L_ACCESS},  reason |-> "Landlord claims unrestricted access to the property", severity |-> 8],
       [pattern |-> {L_REPAIRS}, reason |-> "Clause makes tenant responsible for all repairs, including structural", severity |-> 9],
       [pattern |-> {L_REFUND},  reason |-> "Bond declared non-refundable without cause", severity |-> 8],
       [pattern |-> {L_TERMIN},  reason |-> "Landlord can terminate without notice", severity |-> 10],
       [pattern |-> {L_REPAIRS}, reason |-> "Tenant required to pay landlord's legal fees", severity |-> 7] >>

\* r"\b(no refund|no liability|at any time|without notice)\b"
ABSOLUTE_LANGUAGE == {L_REFUND, L_TERMIN, L_ENTER}

\* "entry" in safe_lower(text)
CONTAINS_ENTRY == {L_ENTRY}

\* The four numeric patterns: the number each line yields (first match in the line)
RE_AMOUNT == [l \in {L_FEE} |-> 3000]
RE_WEEKS  == [l \in {L_BOND6, L_PENALTY} |-> IF l = L_BOND6 THEN 6 ELSE 8]
RE_DAYS   == [l \in {L_ENTRY, L_RENT} |-> IF l = L_ENTRY THEN 5 ELSE 30]
RE_MONTHS == [l \in {L_RENT} |-> 6]

\* safe_lower(s): (s or "").lower(). Lower-casing is part of the match sets
\* (CONTAINS_ENTRY, CONTAINS_ILLEGAL, ...), which are computed on the lower-cased line.
safe_lower(s) == IF IsNone(s) THEN <<>> ELSE Val(s)

\* m = re.search(numeric pattern, text): the first match in the text, or None
FirstMatch(re, text) ==
    LET hits == {i \in DOMAIN text : text[i] \in DOMAIN re}
    IN  IF hits = {} THEN None ELSE Some(re[text[Min(hits)]])

extract_numbers_from_text(text) ==
    LET m == [amount |-> FirstMatch(RE_AMOUNT, text),
              weeks  |-> FirstMatch(RE_WEEKS, text),
              days   |-> FirstMatch(RE_DAYS, text),
              months |-> FirstMatch(RE_MONTHS, text)]
    IN  [k \in {k \in DOMAIN m : ~IsNone(m[k])} |-> Some(Val(m[k]))]

(***************************************************************************)
(* The running state of one assessment: st = [exc, illegal, reasons, score] *)
(* (exc is the exception that left the function, or None).                 *)
(***************************************************************************)
Reason(msg, args) == [msg |-> msg, args |-> args]

\* a violation that deducts without setting illegal
FlagOnlyDeducting(st, reason, pts) ==
    [st EXCEPT !.reasons = Append(@, reason), !.score = @ - pts]

\* illegal = True; reasons.append(reason); score -= pts
Flag(st, reason, pts) ==
    [st EXCEPT !.illegal = TRUE, !.reasons = Append(@, reason), !.score = @ - pts]

\* an advisory that also sets illegal
NoteFlagging(st, reason, pts) == Flag(st, reason, pts)

\* a reason put in front of the earlier ones
NotePrepending(st, reason, pts) ==
    [st EXCEPT !.reasons = <<reason>> \o @, !.score = @ - pts]

\* reasons.append(reason); score -= pts
Note(st, reason, pts) ==
    [st EXCEPT !.reasons = Append(@, reason), !.score = @ - pts]

\* an uncaught exception leaves the function
Raise(st, e) == [st EXCEPT !.exc = Some(e)]

\* `key in nums`, `nums[key] <op> limit`: nums None and a None value raise TypeError
HasKey(nums, k) == k \in DOMAIN Val(nums)

(***************************************************************************)
(* Category-specific statutory checks (rule_engine.py lines 174-232)       *)
(***************************************************************************)
BondCheck(st, clause, nums, state_rules, state_code) ==
    LET bond_rules == Get(state_rules, "bond", EmptyDict)
        max_weeks  == Get(bond_rules, "max_weeks", 4)
    IN  IF IsNone(nums) THEN Raise(st, "TypeError")
        ELSE IF HasKey(nums, "weeks") THEN
            IF IsNone(Val(nums)["weeks"]) THEN Raise(st, "TypeError")
            ELSE IF Val(Val(nums)["weeks"]) > max_weeks
                 THEN Flag(st, Reason("Bond of {weeks} weeks exceeds {state_code} maximum of {max_weeks} weeks",
                                      <<Val(nums)["weeks"], state_code, max_weeks>>), 40)
                 ELSE st
        ELSE IF HasKey(nums, "amount") /\ TruthyNum(Get(clause, "weekly_rent", None)) THEN
            LET weekly_rent == Val(clause["weekly_rent"])
                max_amount  == weekly_rent * max_weeks
            IN  IF IsNone(Val(nums)["amount"]) THEN Raise(st, "TypeError")
                ELSE IF Val(Val(nums)["amount"]) > max_amount
                     THEN Flag(st, Reason("Bond amount ${amount} exceeds maximum of ${max_amount} ({max_weeks} weeks x ${weekly_rent})",
                                          <<Val(nums)["amount"], max_amount, max_weeks, weekly_rent>>), 40)
                     ELSE st
        ELSE IF HasKey(nums, "amount") /\ "weekly_rent" \notin DOMAIN clause THEN
            Note(st, Reason("Bond amount present but weekly_rent not provided - cannot fully validate", <<>>), 5)
        ELSE st

BreakLeaseWeeks(st, nums, state_code, max_weeks) ==
    IF IsNone(nums) THEN Raise(st, "TypeError")
    ELSE IF ~HasKey(nums, "weeks") THEN st
    ELSE IF IsNone(Val(nums)["weeks"]) THEN Raise(st, "TypeError")
    ELSE IF Val(Val(nums)["weeks"]) > max_weeks
         THEN Flag(st, Reason("Break-lease fee of {weeks} weeks exceeds {state_code} maximum of {max_weeks} weeks",
                              <<Val(nums)["weeks"], state_code, max_weeks>>), 35)
         ELSE st

BreakLeaseAmount(st, clause, nums, max_weeks) ==
    IF ~IsNone(st.exc) THEN st
    ELSE IF ~(HasKey(nums, "amount") /\ "weekly_rent" \in DOMAIN clause) THEN st
    ELSE IF IsNone(clause["weekly_rent"]) THEN Raise(st, "TypeError")
    ELSE LET weekly_rent == Val(clause["weekly_rent"])
             max_amount  == weekly_rent * max_weeks
         IN  IF IsNone(Val(nums)["amount"]) THEN Raise(st, "TypeError")
             ELSE IF Val(Val(nums)["amount"]) > max_amount
                  THEN Flag(st, Reason("Break-lease fee ${amount} exceeds maximum of ${max_amount} ({max_weeks} weeks x ${weekly_rent})",
                                       <<Val(nums)["amount"], max_amount, max_weeks, weekly_rent>>), 35)
                  ELSE st

\* a break-lease check whose amount comparison runs only when the week
\* comparison did not flag
BreakLeaseCheckEitherOr(st, clause, nums, state_rules, state_code) ==
    LET fee_rules == Get(state_rules, "break_lease_fee", EmptyDict)
        max_weeks == Get(fee_rules, "max_weeks", 4)
        weeks     == BreakLeaseWeeks(st, nums, state_code, max_weeks)
    IN  IF weeks.illegal THEN weeks ELSE BreakLeaseAmount(weeks, clause, nums, max_weeks)

BreakLeaseCheck(st, clause, nums, state_rules, state_code) ==
    LET fee_rules == Get(state_rules, "break_lease_fee", EmptyDict)
        max_weeks == Get(fee_rules, "max_weeks", 4)
    IN  BreakLeaseAmount(BreakLeaseWeeks(st, nums, state_code, max_weeks), clause, nums, max_weeks)

RentIncreaseDays(st, nums, state_code, min_notice) ==
    IF IsNone(nums) THEN Raise(st, "TypeError")
    ELSE IF ~HasKey(nums, "days") THEN st
    ELSE IF IsNone(Val(nums)["days"]) THEN Raise(st, "TypeError")
    ELSE IF Val(Val(nums)["days"]) < min_notice
         THEN Flag(st, Reason("Rent increase notice period of {days} days is less than {state_code} minimum of {min_notice} days",
                              <<Val(nums)["days"], state_code, min_notice>>), 30)
         ELSE st

RentIncreaseMonths(st, nums, max_freq) ==
    IF ~IsNone(st.exc) THEN st
    ELSE IF ~HasKey(nums, "months") THEN st
    ELSE IF IsNone(Val(nums)["months"]) THEN Raise(st, "TypeError")
    ELSE IF Val(Val(nums)["months"]) < max_freq
         THEN Flag(st, Reason("Rent increases cannot occur more frequently than every {max_freq} months (clause mentions {months} months)",
                              <<max_freq, Val(nums)["months"]>>), 30)
         ELSE st

\* the rent-increase check that takes a missing limit for no limit
RentIncreaseCheckNoDefault(st, nums, state_rules, state_code) ==
    LET inc_rules  == Get(state_rules, "rent_increase", EmptyDict)
        min_notice == Get(inc_rules, "min_notice_days", 0)
        max_freq   == Get(inc_rules, "max_frequency_months", 0)
    IN  RentIncreaseMonths(RentIncreaseDays(st, nums, state_code, min_notice), nums, max_freq)

RentIncreaseCheck(st, nums, state_rules, state_code) ==
    LET inc_rules  == Get(state_rules, "rent_increase", EmptyDict)
        min_notice == Get(inc_rules, "min_notice_days", 60)
        max_freq   == Get(inc_rules, "max_frequency_months", 12)
    IN  RentIncreaseMonths(RentIncreaseDays(st, nums, state_code, min_notice), nums, max_freq)

\* if ctype == "entry" or "entry" in safe_lower(text)
EntryApplies(ctype, text) ==
    ctype = Some("entry") \/ Search(CONTAINS_ENTRY, safe_lower(text))

\* an entry check that flags the clause as illegal
EntryCheckFlagging(st, ctype, text, nums, state_rules, state_code) ==
    IF ~EntryApplies(ctype, text) THEN st
    ELSE LET entry_rules == Get(state_rules, "entry_notice_days", EmptyDict)
             allowed     == IF "routine_inspection" \in DOMAIN entry_rules
                            THEN Some(entry_rules["routine_inspection"]) ELSE None
         IN  IF IsNone(nums) THEN Raise(st, "TypeError")
             ELSE IF ~HasKey(nums, "days") THEN st
             ELSE IF ~TruthyNum(allowed) THEN st
             ELSE IF IsNone(Val(nums)["days"]) THEN Raise(st, "TypeError")
             ELSE IF Val(Val(nums)["days"]) < Val(allowed)
                  THEN Flag(st, Reason("Entry notice of {days} days is shorter than {state_code} allowed routine inspection notice ({allowed})",
                                       <<Val(nums)["days"], state_code, Val(allowed)>>), 10)
                  ELSE st

EntryCheck(st, ctype, text, nums, state_rules, state_code) ==
    IF ~EntryApplies(ctype, text) THEN st
    ELSE LET entry_rules == Get(state_rules, "entry_notice_days", EmptyDict)
             \* entry_rules.get("routine_inspection"): None when the key is missing
             allowed     == IF "routine_inspection" \in DOMAIN entry_rules
                            THEN Some(entry_rules["routine_inspection"]) ELSE None
         IN  IF IsNone(nums) THEN Raise(st, "TypeError")
             ELSE IF ~HasKey(nums, "days") THEN st
             ELSE IF ~TruthyNum(allowed) THEN st
             ELSE IF IsNone(Val(nums)["days"]) THEN Raise(st, "TypeError")
             ELSE IF Val(Val(nums)["days"]) < Val(allowed)
                  THEN Note(st, Reason("Entry notice of {days} days is shorter than {state_code} allowed routine inspection notice ({allowed})",
                                       <<Val(nums)["days"], state_code, Val(allowed)>>), 10)
                  ELSE st

(***************************************************************************)
(* Fairness heuristics (rule_engine.py lines 238-252)                      *)
(***************************************************************************)
FairnessReason(reason_text) == Reason("Potentially unfair: {reason_text}", <<reason_text>>)

\* for pattern, reason_text, severity in FAIRNESS_PATTERNS[i..]: ...
RECURSIVE FairnessLoop(_, _, _, _)
FairnessLoop(st, patterns, text, i) ==
    IF i > Len(patterns) THEN st
    ELSE IF IsNone(text) THEN Raise(st, "TypeError")
    ELSE IF Search(patterns[i].pattern, Val(text))
         THEN FairnessLoop(Note(st, FairnessReason(patterns[i].reason), patterns[i].severity * 2),
                           patterns, text, i + 1)
         ELSE FairnessLoop(st, patterns, text, i + 1)

\* a pattern loop that stops at the first pattern that matches
RECURSIVE FairnessLoopFirstMatch(_, _, _, _)
FairnessLoopFirstMatch(st, patterns, text, i) ==
    IF i > Len(patterns) THEN st
    ELSE IF IsNone(text) THEN Raise(st, "TypeError")
    ELSE IF Search(patterns[i].pattern, Val(text))
         THEN Note(st, FairnessReason(patterns[i].reason), patterns[i].severity * 2)
         ELSE FairnessLoopFirstMatch(st, patterns, text, i + 1)

FairnessCheckFirstMatch(st, text) == FairnessLoopFirstMatch(st, FAIRNESS_PATTERNS, text, 1)

FairnessCheck(st, text) == FairnessLoop(st, FAIRNESS_PATTERNS, text, 1)

\* a penalty check that runs for every category
PenaltyCheckAnyCategory(st, ctype, nums) ==
    IF IsNone(nums) THEN Raise(st, "TypeError")
    ELSE IF ~HasKey(nums, "weeks") THEN st
    ELSE IF IsNone(Val(nums)["weeks"]) THEN Raise(st, "TypeError")
    ELSE IF Val(Val(nums)["weeks"]) > FAIRNESS_THRESHOLDS["penalty_weeks_upper_bound"]
         THEN Note(st, Reason("Penalty of {weeks} weeks is likely excessive", <<Val(nums)["weeks"]>>), 20)
         ELSE st

\* a penalty check that fires at the threshold itself
PenaltyCheckAtThreshold(st, ctype, nums) ==
    IF ctype # Some("penalty") THEN st
    ELSE IF IsNone(nums) THEN Raise(st, "TypeError")
    ELSE IF ~HasKey(nums, "weeks") THEN st
    ELSE IF IsNone(Val(nums)["weeks"]) THEN Raise(st, "TypeError")
    ELSE IF Val(Val(nums)["weeks"]) >= FAIRNESS_THRESHOLDS["penalty_weeks_upper_bound"]
         THEN Note(st, Reason("Penalty of {weeks} weeks is likely excessive", <<Val(nums)["weeks"]>>), 20)
         ELSE st

PenaltyCheck(st, ctype, nums) ==
    IF ctype # Some("penalty") THEN st
    ELSE IF IsNone(nums) THEN Raise(st, "TypeError")
    ELSE IF ~HasKey(nums, "weeks") THEN st
    ELSE IF IsNone(Val(nums)["weeks"]) THEN Raise(st, "TypeError")
    ELSE IF Val(Val(nums)["weeks"]) > FAIRNESS_THRESHOLDS["penalty_weeks_upper_bound"]
         THEN Note(st, Reason("Penalty of {weeks} weeks is likely excessive", <<Val(nums)["weeks"]>>), 20)
         ELSE st

\* an absolute-language check that deducts without giving a reason
AbsoluteCheckSilent(st, text) ==
    IF IsNone(text) THEN Raise(st, "TypeError")
    ELSE IF Search(ABSOLUTE_LANGUAGE, Val(text))
         THEN [st EXCEPT !.score = @ - 15]
         ELSE st

AbsoluteCheck(st, text) ==
    IF IsNone(text) THEN Raise(st, "TypeError")
    ELSE IF Search(ABSOLUTE_LANGUAGE, Val(text))
         THEN Note(st, Reason("Clause uses absolute language that often indicates unfair or illegal terms", <<>>), 15)
         ELSE st

(***************************************************************************)
(* The reasoning oracle (rule_engine.py lines 121-140).                    *)
(* A Python string of the oracle's domain is a text; a JSON value is a     *)
(* record [t, v] of its Python type and value.                             *)
(***************************************************************************)
Text(line) == <<line>>

JNull    == [t |-> "NoneType", v |-> <<>>]
JStr(s)  == [t |-> "str",  v |-> s]
JNum(n)  == [t |-> "int",  v |-> n]
JList(l) == [t |-> "list", v |-> l]
JDict(d) == [t |-> "dict", v |-> d]

\* bool(x)
Truthy(x) ==
    CASE x.t = "NoneType" -> FALSE
      [] x.t = "str"  -> x.v # <<>>
      [] x.t = "int"  -> x.v # 0
      [] x.t = "list" -> x.v # <<>>
      [] x.t = "dict" -> DOMAIN x.v # {}

\* The replies of llm_adapters.llm_query the model draws from
R_ILLEGAL     == "{\"verdict\": \"Illegal\", \"explanation\": \"Exceeds the statutory cap.\"}"
R_UNFAIR      == "{\"verdict\": \"Potentially Unfair\", \"explanation\": \"One-sided term.\"}"
R_MANUAL      == "{\"verdict\": \"Needs Manual Review\", \"explanation\": \"Potentially unfair to the tenant.\"}"
R_LEGAL       == "{\"verdict\": \"Legal\", \"explanation\": \"Complies.\"}"
R_BOTH        == "{\"verdict\": \"Unfair and illegal\", \"explanation\": \"One-sided term.\"}"
R_UNFAIRMAN   == "{\"verdict\": \"UNFAIR - MANUAL CHECK\", \"explanation\": \"One-sided term.\"}"
R_NOVERDICT   == "{\"explanation\": \"Complies.\"}"
R_NULLVERDICT == "{\"verdict\": null, \"explanation\": \"Complies.\"}"
R_NUMVERDICT  == "{\"verdict\": 3, \"explanation\": \"Complies.\"}"
R_NOEXPL      == "{\"verdict\": \"Illegal\"}"
R_NULLEXPL    == "{\"verdict\": \"Illegal\", \"explanation\": null}"
R_EMPTY       == "{}"
R_LIST        == "[1, 2]"
R_PROSE       == "I cannot answer."
R_BADBRACES   == "Answer: {oops}"
R_WRAPPED     == "Sure: {\"verdict\": \"Illegal\", \"explanation\": \"Exceeds the statutory cap.\"}"

\* m = re.search(r"\{.*\}", raw, re.S): m.group(0), or None
BraceMatch(raw) ==
    CASE raw = R_ILLEGAL -> Some(R_ILLEGAL)
      [] raw = R_UNFAIR -> Some(R_UNFAIR)
      [] raw = R_MANUAL -> Some(R_MANUAL)
      [] raw = R_LEGAL -> Some(R_LEGAL)
      [] raw = R_BOTH -> Some(R_BOTH)
      [] raw = R_UNFAIRMAN -> Some(R_UNFAIRMAN)
      [] raw = R_NOVERDICT -> Some(R_NOVERDICT)
      [] raw = R_NULLVERDICT -> Some(R_NULLVERDICT)
      [] raw = R_NUMVERDICT -> Some(R_NUMVERDICT)
      [] raw = R_NOEXPL -> Some(R_NOEXPL)
      [] raw = R_NULLEXPL -> Some(R_NULLEXPL)
      [] raw = R_EMPTY -> Some(R_EMPTY)
      [] raw = R_BADBRACES -> Some("{oops}")
      [] raw = R_WRAPPED -> Some(R_ILLEGAL)
      [] OTHER -> None

\* json.loads(s): the value, or None when s is not JSON (JSONDecodeError)
json_loads(s) ==
    CASE s = R_ILLEGAL -> Some(JDict([verdict |-> JStr(Text("Illegal")), explanation |-> JStr(Text("Exceeds the statutory cap."))]))
      [] s = R_UNFAIR -> Some(JDict([verdict |-> JStr(Text("Potentially Unfair")), explanation |-> JStr(Text("One-sided term."))]))
      [] s = R_MANUAL -> Some(JDict([verdict |-> JStr(Text("Needs Manual Review")), explanation |-> JStr(Text("Potentially unfair to the tenant."))]))
      [] s = R_LEGAL -> Some(JDict([verdict |-> JStr(Text("Legal")), explanation |-> JStr(Text("Complies."))]))
      [] s = R_BOTH -> Some(JDict([verdict |-> JStr(Text("Unfair and illegal")), explanation |-> JStr(Text("One-sided term."))]))
      [] s = R_UNFAIRMAN -> Some(JDict([verdict |-> JStr(Text("UNFAIR - MANUAL CHECK")), explanation |-> JStr(Text("One-sided term."))]))
      [] s = R_NOVERDICT -> Some(JDict([explanation |-> JStr(Text("Complies."))]))
      [] s = R_NULLVERDICT -> Some(JDict([verdict |-> JNull, explanation |-> JStr(Text("Complies."))]))
      [] s = R_NUMVERDICT -> Some(JDict([verdict |-> JNum(3), explanation |-> JStr(Text("Complies."))]))
      [] s = R_NOEXPL -> Some(JDict([verdict |-> JStr(Text("Illegal"))]))
      [] s = R_NULLEXPL -> Some(JDict([verdict |-> JStr(Text("Illegal")), explanation |-> JNull]))
      [] s = R_EMPTY -> Some(JDict(EmptyDict))
      [] s = R_LIST -> Some(JList(<<JNum(1), JNum(2)>>))
      [] OTHER -> None

\* str(e) of the exceptions caught at line 139
E_TIMEOUT    == "timed out"
E_NOT_STRING == "expected string or bytes-like object, got 'NoneType'"
E_BAD_JSON   == "Expecting property name enclosed in double quotes: line 1 column 2 (char 1)"

\* f"LLM call failed: {e}"
LLM_call_failed(e) ==
    CASE e = E_TIMEOUT    -> "LLM call failed: timed out"
      [] e = E_NOT_STRING -> "LLM call failed: expected string or bytes-like object, got 'NoneType'"
      [] e = E_BAD_JSON   -> "LLM call failed: Expecting property name enclosed in double quotes: line 1 column 2 (char 1)"

\* The behaviours of llm_adapters.llm_query(prompt): it raises, or returns raw
\* (None stands for a value that is not a string)
Raises(e)    == [kind |-> "raise", e |-> e, raw |-> None]
Returns(raw) == [kind |-> "return", e |-> "", raw |-> raw]

\* the dict built at line 140
Degraded(e) ==
    JDict([verdict |-> JStr(Text("Needs Manual Review")),
           explanation |-> JStr(Text(LLM_call_failed(e))),
           recommended_action |-> JStr(Text("Retry LLM or fallback"))])

\* the dict built at line 138 (raw[:1000] of a reply shorter than 1000 characters)
ExplanationOnly(raw) ==
    JDict([verdict |-> JStr(Text("Needs Manual Review")),
           explanation |-> JStr(Text(raw)),
           recommended_action |-> JStr(Text("Ask legal counsel"))])

\* call_llm_for_clause past the LLM_AVAILABLE test, given what llm_query does
call_llm_for_clause(behaviour) ==
    IF behaviour.kind = "raise" THEN Degraded(behaviour.e)
    ELSE IF IsNone(behaviour.raw) THEN Degraded(E_NOT_STRING)
    ELSE LET raw == Val(behaviour.raw)
             m   == BraceMatch(raw)
         IN  IF ~IsNone(m)
             THEN IF IsNone(json_loads(Val(m))) THEN Degraded(E_BAD_JSON)
                  ELSE Val(json_loads(Val(m)))
             ELSE IF IsNone(json_loads(raw)) THEN ExplanationOnly(raw)
                  ELSE Val(json_loads(raw))

\* substring tests on the lower-cased verdict, and on a reason
CONTAINS_ILLEGAL == {"Illegal", "Unfair and illegal"}
CONTAINS_UNFAIR  == {"Potentially Unfair", "Unfair and illegal", "UNFAIR - MANUAL CHECK",
                     "Potentially unfair to the tenant."}
CONTAINS_MANUAL  == {"Needs Manual Review", "UNFAIR - MANUAL CHECK"}
CONTAINS_POTENTIALLY_UNFAIR == {"Potentially unfair to the tenant."}

(***************************************************************************)
(* LLM reasoning (rule_engine.py lines 257-273): st and llm_explanation    *)
(***************************************************************************)
\* the oracle's opinion assigned to illegal instead of only raising it
OracleReasonAssigning(st, llm_out, msg, pts, sets_illegal) ==
    LET e == Get(llm_out.v, "explanation", JStr(<<>>))
    IN  IF e.t # "str" THEN Raise(st, "TypeError")
        ELSE [st EXCEPT !.illegal = sets_illegal, !.reasons = Append(@, Reason(msg, <<e.v>>)),
                        !.score = @ - pts]

\* "<prefix>" + llm_out.get("explanation", "")
OracleReason(st, llm_out, msg, pts, sets_illegal) ==
    LET e == Get(llm_out.v, "explanation", JStr(<<>>))
    IN  IF e.t # "str" THEN Raise(st, "TypeError")
        ELSE IF sets_illegal THEN Flag(st, Reason(msg, <<e.v>>), pts)
        ELSE Note(st, Reason(msg, <<e.v>>), pts)

\* the oracle's verdict tested for "unfair" before "illegal"
IntegrateOracleUnfairFirst(st, llm_out) ==
    IF ~Truthy(llm_out) THEN st
    ELSE IF llm_out.t # "dict" THEN Raise(st, "AttributeError")
    ELSE LET x == Get(llm_out.v, "verdict", JStr(<<>>))
         IN  IF Truthy(x) /\ x.t # "str" THEN Raise(st, "AttributeError")
             ELSE LET v == safe_lower(IF Truthy(x) THEN Some(x.v) ELSE None)
                  IN  IF Search(CONTAINS_UNFAIR, v)
                      THEN OracleReason(st, llm_out, "LLM flagged as potentially unfair: {explanation}", 20, FALSE)
                      ELSE IF Search(CONTAINS_ILLEGAL, v)
                      THEN OracleReason(st, llm_out, "LLM flagged as illegal: {explanation}", 30, TRUE)
                      ELSE IF Search(CONTAINS_MANUAL, v)
                      THEN OracleReason(st, llm_out, "LLM recommends manual review: {explanation}", 10, FALSE)
                      ELSE st

IntegrateOracle(st, llm_out) ==
    IF ~Truthy(llm_out) THEN st
    ELSE IF llm_out.t # "dict" THEN Raise(st, "AttributeError")
    ELSE LET x == Get(llm_out.v, "verdict", JStr(<<>>))
         IN  IF Truthy(x) /\ x.t # "str" THEN Raise(st, "AttributeError")
             ELSE LET v == safe_lower(IF Truthy(x) THEN Some(x.v) ELSE None)
                  IN  IF Search(CONTAINS_ILLEGAL, v)
                      THEN OracleReason(st, llm_out, "LLM flagged as illegal: {explanation}", 30, TRUE)
                      ELSE IF Search(CONTAINS_UNFAIR, v)
                      THEN OracleReason(st, llm_out, "LLM flagged as potentially unfair: {explanation}", 20, FALSE)
                      ELSE IF Search(CONTAINS_MANUAL, v)
                      THEN OracleReason(st, llm_out, "LLM recommends manual review: {explanation}", 10, FALSE)
                      ELSE st

\* llm_explanation after line 262: the opinion when it is truthy, else None
OracleExplanation(llm_out) == IF Truthy(llm_out) THEN Some(llm_out) ELSE None

(***************************************************************************)
(* Final adjustments and verdict (rule_engine.py lines 276-297)            *)
(***************************************************************************)
Max2(a, b) == IF a > b THEN a ELSE b
Min2(a, b) == IF a < b THEN a ELSE b

\* the clamp without its lower bound
ClampUpperOnly(score) == Min2(100, score)

\* score = max(0.0, min(100.0, score))
Clamp(score) == Max2(0, Min2(100, score))

\* "Potentially unfair" in r
MentionsPotentiallyUnfair(r) ==
    \/ r.msg = "Potentially unfair: {reason_text}"
    \/ /\ r.msg \in {"LLM flagged as illegal: {explanation}",
                     "LLM flagged as potentially unfair: {explanation}",
                     "LLM recommends manual review: {explanation}"}
       /\ Search(CONTAINS_POTENTIALLY_UNFAIR, r.args[1])

\* the verdict with the score and reason tests ahead of the illegal flag
DecideVerdictScoreFirst(illegal, score, reasons) ==
    IF score < 60 \/ (\E i \in DOMAIN reasons : MentionsPotentiallyUnfair(reasons[i]))
    THEN "Potentially Unfair"
    ELSE IF illegal THEN "Illegal"
    ELSE IF score < 80 /\ reasons # <<>> THEN "Needs Manual Review"
    ELSE "Legal"

DecideVerdict(illegal, score, reasons) ==
    IF illegal THEN "Illegal"
    ELSE IF score < 60 \/ (\E i \in DOMAIN reasons : MentionsPotentiallyUnfair(reasons[i]))
         THEN "Potentially Unfair"
    ELSE IF score < 80 /\ reasons # <<>> THEN "Needs Manual Review"
    ELSE "Legal"

(***************************************************************************)
(* Contract-level aggregation (rule_engine.py lines 304-329)               *)
(***************************************************************************)
\* state.upper()
Upper(state) ==
    CASE state = "nsw" -> "NSW"
      [] state = "vic" -> "VIC"
      [] OTHER -> state

\* the quotient cut, not rounded, to tenths
RoundTenthsDown(num, den) == (10 * num) \div den

\* round(x, 1) of the quotient num / den, in tenths (den > 0): to the nearest
\* tenth, and to the even one when the quotient lies halfway between two
\* (with den <= 4 such a quotient ends in .25 or .75, which a float holds exactly)
RoundTenths(num, den) ==
    LET q == (10 * num) \div den
        r == (10 * num) % den
    IN  IF 2 * r > den \/ (2 * r = den /\ q % 2 = 1) THEN q + 1 ELSE q

Count(results, P(_)) == Cardinality({i \in DOMAIN results : P(results[i])})

Scores(results) == [i \in DOMAIN results |-> results[i].score]

\* the overall verdict with the unfairness test ahead of the illegal count
OverallVerdictUnfairFirst(illegal_count, potentially_unfair, sum, n) ==
    IF potentially_unfair > 0 \/ (n > 0 /\ sum < 70 * n)
    THEN "Potentially Unfair - Review Recommended"
    ELSE IF illegal_count > 0 THEN "Contains Illegal Clauses"
    ELSE "Legal"

OverallVerdict(illegal_count, potentially_unfair, sum, n) ==
    IF illegal_count > 0 THEN "Contains Illegal Clauses"
    \* avg_score < 70, with avg_score = sum / n, or 100 for no scores
    ELSE IF potentially_unfair > 0 \/ (n > 0 /\ sum < 70 * n)
         THEN "Potentially Unfair - Review Recommended"
    ELSE "Legal"

\* the average without the default of 100 for no scores
AverageTenthsNoDefault(sum, n) == IF n > 0 THEN RoundTenths(sum, n) ELSE 0

AverageTenths(sum, n) == IF n > 0 THEN RoundTenths(sum, n) ELSE 1000

Aggregation(state, results) ==
    LET scores == Scores(results)
        sum    == SumSeq(scores)
        n      == Len(scores)
        illegal_count      == Count(results, LAMBDA r : r.illegal)
        potentially_unfair == Count(results, LAMBDA r : r.verdict = "Potentially Unfair")
    IN  [ state             |-> state,
          overall_verdict   |-> OverallVerdict(illegal_count, potentially_unfair, sum, n),
          average_score_x10 |-> AverageTenths(sum, n),
          illegal_count     |-> illegal_count,
          clauses_evaluated |-> Len(results),
          results           |-> results ]

(***************************************************************************)
(* Bounds and input domains                                                *)
(***************************************************************************)
\* at most this many lines in a clause text
MaxLines == 2
\* at most this many keys in caller-supplied numeric_values
MaxNumKeys == 2
\* calls of the assessor on the same clause object (the second repeats the first)
MaxCalls == 2
\* clauses in a contract
MaxClauses == 2

\* the lines clause texts are made of
Lines == {L_ACCESS, L_REPAIRS, L_REFUND, L_TERMIN, L_ENTER, L_ENTRY, L_BOND6, L_FEE, L_RENT}

\* the lines a number or the word "entry" is found in
NumericLines == {L_ENTRY, L_BOND6, L_FEE, L_RENT}

Texts == UNION {[1..n -> Lines] : n \in 0..MaxLines}

\* numeric values: at, below and above the statutory limits
NumericValues ==
    [ amount |-> {2000, 3000}, weeks |-> {2, 4, 6}, days |-> {5, 60}, months |-> {6, 12} ]

AllNumbers == UNION {NumericValues[k] : k \in DOMAIN NumericValues}

NumericDicts ==
    UNION { {d \in [K -> {Some(n) : n \in AllNumbers}] : \A k \in K : Val(d[k]) \in NumericValues[k]}
            : K \in {K \in SUBSET DOMAIN NumericValues : Cardinality(K) <= MaxNumKeys} }

Categories == {"bond", "break_lease_fee", "rent_increase", "entry", "penalty", "other"}

\* A field of a clause record: <<>> when the key is missing, <<v>> when it holds v
Missing == <<>>
Field(v) == <<v>>

MkClause(ty, tx, nv, wr) ==
    LET f == [type |-> ty, text |-> tx, numeric_values |-> nv, weekly_rent |-> wr]
    IN  [k \in {k \in DOMAIN f : f[k] # Missing} |-> f[k][1]]

TypeFields == {Missing} \cup {Field(Some(c)) : c \in Categories}

\* clauses with caller-supplied numeric values and no text
NumericClauses ==
    { MkClause(ty, Missing, Field(Some(d)), wr) :
        ty \in TypeFields, d \in NumericDicts, wr \in {Missing, Field(Some(500))} }

\* clauses with a text and no numeric values
TextClauses ==
    { MkClause(ty, Field(Some(t)), Missing, wr) :
        ty \in TypeFields, t \in Texts, wr \in {Missing, Field(Some(500))} }

\* clauses with one caller-supplied numeric value and a one-line text
MixedClauses ==
    { MkClause(ty, Field(Some(Text(l))), Field(Some(d)), Missing) :
        ty \in TypeFields, l \in NumericLines, d \in {d \in NumericDicts : Cardinality(DOMAIN d) = 1} }

\* clauses in which the text, the category, numeric_values, a numeric value or
\* weekly_rent is None, or weekly_rent is 0
NoneTextClauses ==
    { MkClause(ty, Field(None), nv, Missing) :
        ty \in TypeFields, nv \in {Missing, Field(Some([weeks |-> Some(6)]))} }

NoneNumericClauses ==
    { MkClause(ty, tx, nv, Missing) :
        ty \in TypeFields \cup {Field(None)},
        tx \in {Missing, Field(Some(Text(L_ENTRY))), Field(Some(Text(L_REFUND)))},
        nv \in {Field(None), Field(Some([weeks |-> None])), Field(Some([amount |-> None])),
                Field(Some([days |-> None]))} }

NoneRentClauses ==
    { MkClause(ty, Missing, nv, wr) :
        ty \in TypeFields \cup {Field(None)},
        nv \in {Field(Some([amount |-> Some(3000)])), Field(Some([amount |-> None]))},
        wr \in {Field(None), Field(Some(0))} }

MalformedClauses == NoneTextClauses \cup NoneNumericClauses \cup NoneRentClauses

Clauses == NumericClauses \cup TextClauses \cup MixedClauses \cup MalformedClauses

\* (state_rules, state_code) a caller passes: a known jurisdiction, or the empty ruleset
Jurisdictions == {"NSW", "VIC", "QLD"}

RawReplies == {R_ILLEGAL, R_UNFAIR, R_MANUAL, R_LEGAL, R_BOTH, R_UNFAIRMAN, R_NOVERDICT, R_NULLVERDICT,
               R_NUMVERDICT, R_NOEXPL, R_NULLEXPL, R_EMPTY, R_LIST, R_PROSE, R_BADBRACES, R_WRAPPED}

OracleBehaviours == {Raises(E_TIMEOUT), Returns(None)} \cup {Returns(Some(r)) : r \in RawReplies}

(***************************************************************************)
(* State                                                                   *)
(***************************************************************************)
VARIABLES
    clauses,          \* the clause objects (dicts) the caller holds
    state_rules,      \* the ruleset passed to the assessor
    state_code,       \* the jurisdiction code passed to the assessor
    LLM_AVAILABLE,    \* module global set at import
    oracle,           \* what the configured llm_adapters.llm_query may do on a prompt
    llm_query,        \* the (deterministic) oracle: prompt -> behaviour, as far as queried
    pc,               \* position in the running function
    idx,              \* index of the clause under assessment
    calls,            \* assessor calls made so far on clauses[idx] by the caller
    ctype, nums, text,            \* locals of assess_clause_legality_hybrid
    reasons, illegal, score,      \* locals of assess_clause_legality_hybrid
    llm_explanation,              \* local of assess_clause_legality_hybrid
    exc,              \* the exception that left the running function, or None
    results,          \* what the assessor calls returned, in order
    state,            \* evaluate_contract's jurisdiction argument
    report,           \* evaluate_contract's return value, or None
    user_requests,    \* endpoints.py: user id -> timestamps of the accepted /chat requests
    clock,            \* the wall clock, in seconds
    chat,             \* the /chat requests: position, user id and local now of each
    documents,        \* the documents table: doc id -> status, or None before the upload
    analysis          \* the analysis table: its rows, in insertion order

vars == <<clauses, state_rules, state_code, LLM_AVAILABLE, oracle, llm_query, pc, idx, calls,
          ctype, nums, text, reasons, illegal, score, llm_explanation, exc, results,
          state, report, user_requests, clock, chat, documents, analysis>>

\* the state of the web application (backend/app)
server == <<user_requests, clock, chat, documents, analysis>>

inputs == <<clauses, LLM_AVAILABLE, oracle, state>>
rules  == <<state_rules, state_code>>
locals == <<ctype, nums, text>>

\* bounds of the web application: /chat requests, seconds, documents,
\* /process calls
MaxRequests == 3
MaxTime == 7
MaxDocs == 2
MaxRows == 3

Requests == 1..MaxRequests
DocIds == 1..MaxDocs

\* user_requests = defaultdict(list): every user id starts with no timestamp;
\* the user ids are those of `req.user_id or 0`
UserIds == {0, 1}

\* the web application before its first request
ServerStarted ==
    /\ user_requests = [u \in UserIds |-> <<>>]
    /\ clock = 0
    /\ chat = [r \in Requests |-> [pc |-> "idle", user_id |-> 0, now |-> 0]]
    /\ documents = [d \in DocIds |-> <<>>]
    /\ analysis = <<>>

clause == clauses[idx]

St == [exc |-> exc, illegal |-> illegal, reasons |-> reasons, score |-> score]

\* take over the outcome of a check and go on at `next`, or leave with its exception
Apply(out, next) ==
    /\ illegal' = out.illegal
    /\ reasons' = out.reasons
    /\ score'   = out.score
    /\ exc'     = out.exc
    /\ pc'      = IF IsNone(out.exc) THEN next ELSE "raised"

RulesOf(code) == Get(STATE_RULES, code, EmptyDict)

InitLocals ==
    /\ ctype = None /\ nums = None /\ text = None
    /\ reasons = <<>> /\ illegal = FALSE /\ score = 100
    /\ llm_explanation = None /\ exc = None
    /\ results = <<>> /\ report = None
    /\ llm_query = EmptyDict
    /\ idx = 1 /\ calls = 0
    /\ ServerStarted

\* A caller is about to call assess_clause_legality_hybrid(clause, state_rules, state_code)
Init ==
    /\ \E c \in Clauses : clauses = <<c>>
    /\ \E j \in Jurisdictions : state_code = j /\ state_rules = RulesOf(j) /\ state = j
    /\ LLM_AVAILABLE \in BOOLEAN
    /\ oracle = OracleBehaviours
    /\ pc = "call"
    /\ InitLocals

(***************************************************************************)
(* assess_clause_legality_hybrid, step by step                             *)
(***************************************************************************)
\* what a call that ended in an exception leaves with its caller
Raised(e) ==
    [exc |-> e, verdict |-> "", score |-> 0, illegal |-> FALSE, reasons |-> <<>>,
     llm_explanation |-> None]

\* an outcome `out` of a check: its exception, if any, ends the call
Leave(out) ==
    results' = IF IsNone(out.exc) THEN results ELSE Append(results, Raised(out.exc))

\* the entry of a call that goes on with the reasons, flag and score the
\* previous call left
EnterKeepingState ==
    /\ pc = "call"
    /\ calls' = calls + 1
    /\ ctype' = Get(clause, "type", Some("unknown"))
    /\ nums' = Get(clause, "numeric_values", Some(EmptyDict))
    /\ text' = Get(clause, "text", Some(<<>>))
    /\ llm_explanation' = None
    /\ exc' = None
    /\ pc' = "resolve"
    /\ UNCHANGED <<server, inputs, rules, llm_query, idx, results, report, reasons, illegal, score>>

\* lines 157-163
Enter ==
    /\ pc = "call"
    /\ calls' = calls + 1
    /\ reasons' = <<>>
    /\ illegal' = FALSE
    /\ score' = 100
    /\ ctype' = Get(clause, "type", Some("unknown"))
    /\ nums' = Get(clause, "numeric_values", Some(EmptyDict))
    /\ text' = Get(clause, "text", Some(<<>>))
    /\ llm_explanation' = None
    /\ exc' = None
    /\ pc' = "resolve"
    /\ UNCHANGED <<server, inputs, rules, llm_query, idx, results, report>>

\* clause["numeric_values"] = nums
AttachNumerics(c, extracted) == WithKey(c, "numeric_values", Some(extracted))

\* a resolution that lets the extracted values replace the supplied ones
ResolveNumericsOverwriting(c, n, t) ==
    IF IsNone(t) THEN
        IF ~(IsNone(n) \/ Val(n) = EmptyDict) THEN [exc |-> None, nums |-> n, clause |-> c]
        ELSE [exc |-> Some("TypeError"), nums |-> n, clause |-> c]
    ELSE LET extracted == extract_numbers_from_text(Val(t))
         IN  IF extracted # EmptyDict
             THEN [exc |-> None, nums |-> Some(extracted), clause |-> AttachNumerics(c, extracted)]
             ELSE [exc |-> None, nums |-> n, clause |-> c]

\* the numeric resolution that attaches the extracted values to the clause
\* and goes on with the ones it arrived with
ResolveNumericsStale(c, n, t) ==
    IF ~(IsNone(n) \/ Val(n) = EmptyDict) THEN [exc |-> None, nums |-> n, clause |-> c]
    ELSE IF IsNone(t) THEN [exc |-> Some("TypeError"), nums |-> n, clause |-> c]
    ELSE LET extracted == extract_numbers_from_text(Val(t))
         IN  IF extracted # EmptyDict
             THEN [exc |-> None, nums |-> n, clause |-> AttachNumerics(c, extracted)]
             ELSE [exc |-> None, nums |-> n, clause |-> c]

\* lines 166-170: [exc, nums, clause] after the numeric resolution
ResolveNumerics(c, n, t) ==
    IF ~(IsNone(n) \/ Val(n) = EmptyDict) THEN [exc |-> None, nums |-> n, clause |-> c]
    ELSE IF IsNone(t) THEN [exc |-> Some("TypeError"), nums |-> n, clause |-> c]
    ELSE LET extracted == extract_numbers_from_text(Val(t))
         IN  IF extracted # EmptyDict
             THEN [exc |-> None, nums |-> Some(extracted), clause |-> AttachNumerics(c, extracted)]
             ELSE [exc |-> None, nums |-> n, clause |-> c]

Resolve ==
    /\ pc = "resolve"
    /\ LET r == ResolveNumerics(clause, nums, text)
       IN  /\ nums' = r.nums
           /\ clauses' = [clauses EXCEPT ![idx] = r.clause]
           /\ exc' = r.exc
           /\ pc' = IF IsNone(r.exc) THEN "statutory" ELSE "raised"
           /\ Leave(r)
    /\ UNCHANGED <<server, LLM_AVAILABLE, oracle, state, rules, llm_query, idx, calls, ctype, text,
                   reasons, illegal, score, llm_explanation, report>>

\* the frame of a check: it changes reasons, illegal, score (or raises)
Check(at, out, next) ==
    /\ pc = at
    /\ Apply(out, next)
    /\ Leave(out)
    /\ UNCHANGED <<server, inputs, rules, llm_query, idx, calls, locals, llm_explanation, report>>

\* lines 174-191
Bond ==
    /\ ctype = Some("bond")
    /\ Check("statutory", BondCheck(St, clause, nums, state_rules, state_code), "entry")

\* lines 194-207
BreakLeaseFee ==
    /\ ctype = Some("break_lease_fee")
    /\ Check("statutory", BreakLeaseCheck(St, clause, nums, state_rules, state_code), "entry")

\* lines 210-221
RentIncrease ==
    /\ ctype = Some("rent_increase")
    /\ Check("statutory", RentIncreaseCheck(St, nums, state_rules, state_code), "entry")

\* no statutory branch applies to any other category
NoStatutory ==
    /\ ctype \notin {Some("bond"), Some("break_lease_fee"), Some("rent_increase")}
    /\ Check("statutory", St, "entry")

\* lines 224-232
Entry ==
    /\ pc = "entry"
    /\ Check("entry", EntryCheck(St, ctype, text, nums, state_rules, state_code), "fairness")

\* lines 238-241
Fairness ==
    /\ pc = "fairness"
    /\ Check("fairness", FairnessCheck(St, text), "penalty")

\* lines 244-247
Penalty ==
    /\ pc = "penalty"
    /\ Check("penalty", PenaltyCheck(St, ctype, nums), "absolute")

\* lines 250-252
Absolute ==
    /\ pc = "absolute"
    /\ Check("absolute", AbsoluteCheck(St, text), "oracle")

\* the oracle step that, without an oracle, records a manual-review opinion
OracleSkipDegrading ==
    /\ pc = "oracle"
    /\ ~LLM_AVAILABLE
    /\ llm_explanation' = Some(Degraded(E_TIMEOUT))
    /\ Apply(IntegrateOracle(St, Degraded(E_TIMEOUT)), "final")
    /\ UNCHANGED <<server, inputs, rules, llm_query, idx, calls, locals, results, report>>

\* lines 257-258 with LLM_AVAILABLE false
OracleSkip ==
    /\ pc = "oracle"
    /\ ~LLM_AVAILABLE
    /\ llm_explanation' = None
    /\ pc' = "final"
    /\ UNCHANGED <<server, inputs, rules, llm_query, idx, calls, locals, reasons, illegal, score,
                   exc, results, report>>

\* llm_reasoning_prompt (lines 108-118): what the prompt depends on
\* (t.strip() leaves the lines of the vocabulary as they are)
llm_reasoning_prompt(c, code) == [state |-> code, t |-> Val(Get(c, "text", Some(<<>>)))]

\* lines 258-273 with LLM_AVAILABLE true: the oracle answers the prompt as it
\* answered it before, or in any way if it is asked for the first time
OracleCall ==
    /\ pc = "oracle"
    /\ LLM_AVAILABLE
    /\ LET prompt == llm_reasoning_prompt(clause, state_code)
       IN  \E b \in (IF prompt \in DOMAIN llm_query THEN {llm_query[prompt]} ELSE oracle) :
              LET llm_out == call_llm_for_clause(b)
                  out     == IntegrateOracle(St, llm_out)
              IN  /\ llm_query' = WithKey(llm_query, prompt, b)
                  /\ llm_explanation' = OracleExplanation(llm_out)
                  /\ Apply(out, "final")
                  /\ Leave(out)
    /\ UNCHANGED <<server, inputs, rules, idx, calls, locals, report>>

\* lines 276-297: the returned dict
Result(i, s, r, e) ==
    LET final == Clamp(s)
    IN  [exc |-> None, verdict |-> DecideVerdict(i, final, r), score |-> final,
         illegal |-> i, reasons |-> r, llm_explanation |-> e]

Finalize ==
    /\ pc = "final"
    /\ score' = Clamp(score)
    /\ results' = Append(results, Result(illegal, score, reasons, llm_explanation))
    /\ pc' = "returned"
    /\ UNCHANGED <<server, inputs, rules, llm_query, idx, calls, locals, reasons, illegal,
                   llm_explanation, exc, report>>

Assess ==
    \/ Enter \/ Resolve
    \/ Bond \/ BreakLeaseFee \/ RentIncrease \/ NoStatutory
    \/ Entry \/ Fairness \/ Penalty \/ Absolute
    \/ OracleSkip \/ OracleCall
    \/ Finalize

\* the caller assesses the same clause object again
AssessAgain ==
    /\ pc \in {"returned", "raised"}
    /\ calls < MaxCalls
    /\ pc' = "call"
    /\ UNCHANGED <<server, inputs, rules, llm_query, idx, calls, locals, reasons, illegal, score,
                   llm_explanation, exc, results, report>>

\* one call of the assessor
Next == Assess

Spec == Init /\ [][Next]_vars

(***************************************************************************)
(* The same clause object assessed MaxCalls times                          *)
(***************************************************************************)
\* texts of at most one line
ShortTextClauses == {c \in TextClauses : Len(Val(c["text"])) <= 1}

RepeatClauses == ShortTextClauses \cup MixedClauses \cup MalformedClauses

InitRepeat ==
    /\ \E c \in RepeatClauses : clauses = <<c>>
    /\ \E j \in Jurisdictions : state_code = j /\ state_rules = RulesOf(j) /\ state = j
    /\ LLM_AVAILABLE \in BOOLEAN
    /\ oracle = OracleBehaviours
    /\ pc = "call"
    /\ InitLocals

NextRepeat == Assess \/ AssessAgain

SpecRepeat == InitRepeat /\ [][NextRepeat]_vars

(***************************************************************************)
(* evaluate_contract(clauses, state)                                       *)
(***************************************************************************)
\* SAMPLE_CLAUSES (lines 335-356)
SAMPLE_CLAUSES ==
    << [type |-> Some("bond"), text |-> Some(Text(L_BOND6)),
        numeric_values |-> Some([weeks |-> Some(6)]), weekly_rent |-> Some(500)],
       [type |-> Some("rent_increase"), text |-> Some(Text(L_RENT)),
        numeric_values |-> Some([months |-> Some(6), days |-> Some(30)])],
       [type |-> Some("penalty"), text |-> Some(Text(L_PENALTY)),
        numeric_values |-> Some([weeks |-> Some(8)])],
       [type |-> Some("entry"), text |-> Some(Text(L_ENTER))] >>

\* the clauses contracts are made of: the samples, a clause with a fairness
\* pattern, a clause that scores 65 without one, a break-lease fee above the
\* cap, and a clause that makes the assessor raise
ContractClauses ==
    {SAMPLE_CLAUSES[i] : i \in DOMAIN SAMPLE_CLAUSES} \cup
    { [type |-> Some("other"), text |-> Some(Text(L_ACCESS))],
      [type |-> Some("penalty"), text |-> Some(Text(L_ENTER)), numeric_values |-> Some([weeks |-> Some(8)])],
      [type |-> Some("break_lease_fee"), text |-> Some(Text(L_FEE)),
       numeric_values |-> Some([amount |-> Some(3000)]), weekly_rent |-> Some(500)],
      [type |-> Some("bond"), numeric_values |-> None] }

Contracts == UNION {[1..n -> ContractClauses] : n \in 0..MaxClauses}

StateCodes == {"NSW", "vic", "QLD"}

ContractBehaviours == {Raises(E_TIMEOUT), Returns(Some(R_ILLEGAL)), Returns(Some(R_LEGAL))}

InitContract ==
    /\ clauses \in Contracts
    /\ state \in StateCodes
    /\ state_code = "" /\ state_rules = EmptyDict
    /\ LLM_AVAILABLE \in BOOLEAN
    /\ oracle = ContractBehaviours
    /\ pc = "evaluate"
    /\ InitLocals

\* lines 306-307: the ruleset lookup, and the first iteration of the comprehension
EvaluateStart ==
    /\ pc = "evaluate"
    /\ state_rules' = Get(STATE_RULES, Upper(state), EmptyDict)
    /\ state_code' = Upper(state)
    /\ results' = <<>>
    /\ idx' = 1
    /\ pc' = IF clauses = <<>> THEN "aggregate" ELSE "call"
    /\ UNCHANGED <<server, inputs, llm_query, calls, locals, reasons, illegal, score,
                   llm_explanation, exc, report>>

\* line 307: the next iteration of the comprehension, or its end
NextClause ==
    /\ pc = "returned"
    /\ IF idx < Len(clauses)
       THEN idx' = idx + 1 /\ pc' = "call"
       ELSE idx' = idx /\ pc' = "aggregate"
    /\ UNCHANGED <<server, inputs, rules, llm_query, calls, locals, reasons, illegal, score,
                   llm_explanation, exc, results, report>>

\* lines 310-329
Aggregate ==
    /\ pc = "aggregate"
    /\ report' = Some(Aggregation(state, results))
    /\ pc' = "done"
    /\ UNCHANGED <<server, inputs, rules, llm_query, idx, calls, locals, reasons, illegal, score,
                   llm_explanation, exc, results>>

NextContract == Assess \/ EvaluateStart \/ NextClause \/ Aggregate

SpecContract == InitContract /\ [][NextContract]_vars

(***************************************************************************)
(* Properties of one assessment                                            *)
(***************************************************************************)
\* the steps of an assessment that run a check
CheckSteps == {"statutory", "entry", "fairness", "penalty", "absolute", "oracle"}

\* the result the running call has just returned
Returned == results[Len(results)]

\* C1: the running score is 100 when the assessment starts, no check
\* (statutory, entry, fairness-pattern, penalty, absolute-language, oracle)
\* increases it, and the score of the returned result lies in [0, 100].
ScoreOnlyDecreases ==
    [][ /\ (pc = "call" => score' = 100)
        /\ (pc \in CheckSteps => score' <= score)
        /\ (pc = "final" => results'[Len(results')].score \in 0..100) ]_vars

\* a result whose score the checks (the oracle among them) took below 0
ScoreClampedAtZero ==
    /\ pc = "returned"
    /\ Returned.score = 0
    /\ Len(Returned.reasons) >= 4
    /\ ~IsNone(Returned.llm_explanation)

\* C2: within one assessment, once a check has set illegal, every later step
\* of the same assessment leaves it set, and the returned illegal flag is true.
IllegalIsNeverReset ==
    [][ (illegal /\ pc \notin {"call", "returned", "raised"} /\ pc' # "raised") =>
            /\ illegal'
            /\ (pc' = "returned" => results'[Len(results')].illegal) ]_vars

\* a statutory check flagged the clause, later checks and the oracle added
\* reasons of their own, and the result is returned
FlaggedThenMoreChecks ==
    /\ pc = "returned"
    /\ Returned.illegal
    /\ Len(reasons) >= 3
    /\ reasons[1].msg = "Bond of {weeks} weeks exceeds {state_code} maximum of {max_weeks} weeks"
    /\ reasons[Len(reasons)].msg = "LLM recommends manual review: {explanation}"

\* C3: a returned result has verdict "Illegal" exactly when its illegal flag
\* is true, whatever its score and its reasons are.
IllegalVerdictIffIllegal ==
    \A i \in DOMAIN results :
        IsNone(results[i].exc) => (results[i].verdict = "Illegal" <=> results[i].illegal)

\* an illegal result that also carries a matched fairness pattern and a
\* score below 60
IllegalWithUnfairReasons ==
    /\ pc = "returned"
    /\ Returned.illegal /\ Returned.verdict = "Illegal"
    /\ Returned.score < 60
    /\ \E i \in DOMAIN reasons : MentionsPotentiallyUnfair(reasons[i])

\* the advisory of the bond check
BondAdvisory ==
    Reason("Bond amount present but weekly_rent not provided - cannot fully validate", <<>>)

\* a bond clause with a currency amount, no week-count and no weekly_rent field
AmountOnlyBond ==
    /\ ctype = Some("bond")
    /\ ~IsNone(nums) /\ HasKey(nums, "amount") /\ ~HasKey(nums, "weeks")
    /\ ~IsNone(Val(nums)["amount"])
    /\ "weekly_rent" \notin DOMAIN clause

\* no check that reads the text applies to it
NoTextMatch ==
    /\ ~IsNone(text)
    /\ ~EntryApplies(ctype, text)
    /\ \A i \in DOMAIN FAIRNESS_PATTERNS : ~Search(FAIRNESS_PATTERNS[i].pattern, Val(text))
    /\ ~Search(ABSOLUTE_LANGUAGE, Val(text))

\* C4: for a bond clause with a currency amount, no week-count and no
\* weekly_rent the bond check does not set illegal, deducts exactly 5 and
\* appends the "cannot fully validate" advisory; with no text match and no
\* oracle the result is illegal = false, score = 95.
BondAmountWithoutRentIsAdvisory ==
    [][ /\ (pc = "statutory" /\ AmountOnlyBond) =>
              /\ illegal' = illegal
              /\ score' = score - 5
              /\ reasons' = Append(reasons, BondAdvisory)
              /\ pc' = "entry"
        /\ (pc = "final" /\ AmountOnlyBond /\ NoTextMatch /\ ~LLM_AVAILABLE) =>
              /\ ~results'[Len(results')].illegal
              /\ results'[Len(results')].score = 95
              /\ results'[Len(results')].reasons = <<BondAdvisory>> ]_vars

\* such a clause, its amount taken from the caller, assessed without oracle
AmountOnlyBondReturned ==
    /\ pc = "returned"
    /\ AmountOnlyBond /\ NoTextMatch /\ ~LLM_AVAILABLE
    /\ Val(nums)["amount"] = Some(3000)
    /\ Returned.score = 95 /\ ~Returned.illegal

(***************************************************************************)
(* Properties of evaluate_contract                                         *)
(***************************************************************************)
\* C5: evaluate_contract returns overall_verdict "Contains Illegal Clauses"
\* whenever at least one clause result has illegal = true, whatever the
\* average score and the number of potentially unfair clauses are.
IllegalDominatesReport ==
    (pc = "done" /\ \E i \in DOMAIN results : results[i].illegal) =>
        Val(report).overall_verdict = "Contains Illegal Clauses"

\* a report with an illegal clause, a potentially unfair clause and an
\* average score of 70 or more
IllegalReportWithHighAverage ==
    /\ pc = "done"
    /\ Val(report).illegal_count = 1
    /\ \E i \in DOMAIN results : results[i].verdict = "Potentially Unfair"
    /\ Val(report).average_score_x10 >= 700
    /\ Val(report).overall_verdict = "Contains Illegal Clauses"

\* C6: evaluate_contract on an empty clause list, for any jurisdiction code,
\* does not raise and returns a report with average_score = 100,
\* illegal_count = 0, clauses_evaluated = 0 and overall_verdict = "Legal".
EmptyContractIsLegal ==
    clauses = <<>> =>
        /\ pc \in {"evaluate", "aggregate", "done"}
        /\ IsNone(exc)
        /\ pc = "done" =>
              /\ ~IsNone(report)
              /\ Val(report).average_score_x10 = 1000
              /\ Val(report).illegal_count = 0
              /\ Val(report).clauses_evaluated = 0
              /\ Val(report).overall_verdict = "Legal"
              /\ Val(report).state = state

\* the report of an empty contract in a jurisdiction without a ruleset
EmptyContractReported ==
    /\ clauses = <<>>
    /\ pc = "done"
    /\ state = "QLD"
    /\ Val(report).results = <<>>

(***************************************************************************)
(* Properties of repeated assessments                                      *)
(***************************************************************************)
\* what the claim compares of a call's outcome
Outcome(r) == <<r.exc, r.verdict, r.score, r.illegal, r.reasons>>

\* C7: assessing the same clause again, with the same ruleset, jurisdiction
\* and oracle (deterministic, or absent), gives the same verdict, score,
\* illegal flag and reasons as the first assessment gave, also when the first
\* assessment attached extracted numeric values to the clause.
RepeatedAssessmentAgrees ==
    \A i \in DOMAIN results : Outcome(results[i]) = Outcome(results[1])

\* the clause arrived with a text, a weekly_rent and no numeric values; the
\* first assessment attached the extracted ones and flagged the clause; the
\* second assessment, with the oracle, has returned
SecondCallAfterAttachment ==
    /\ pc = "returned"
    /\ Len(results) = 2
    /\ {"text", "weekly_rent", "numeric_values"} \subseteq DOMAIN clauses[1]
    /\ clauses[1]["weekly_rent"] = Some(500)
    /\ clauses[1]["numeric_values"] = Some(extract_numbers_from_text(Val(clauses[1]["text"])))
    /\ results[2].illegal
    /\ ~IsNone(results[2].llm_explanation)

(***************************************************************************)
(* Statements the code does not meet                                       *)
(***************************************************************************)
\* C8: when the oracle is available, no oracle behaviour makes the
\* assessment raise: the oracle step always goes on to the final step, which
\* returns a complete result.
OracleNeverAborts ==
    [][ (pc = "oracle" /\ LLM_AVAILABLE) => (pc' = "final" /\ IsNone(exc')) ]_vars

\* what the oracle did on the prompt of the clause under assessment
Behaviour == llm_query[llm_reasoning_prompt(clause, state_code)]

\* the degraded outcomes: the call raises, the reply is not JSON, or it is a
\* JSON object with a field missing
DegradedBehaviours ==
    {Raises(E_TIMEOUT)} \cup
    {Returns(Some(r)) : r \in {R_PROSE, R_BADBRACES, R_NOVERDICT, R_EMPTY}}

\* C9: every degraded oracle outcome (transport error, a reply that is not
\* JSON, a JSON reply with a missing field such as the verdict) becomes an
\* opinion with verdict "Needs Manual Review", for which the assessment
\* deducts 10 exactly once and appends exactly one manual-review reason.
DegradedOracleIsManualReview ==
    [][ (pc = "oracle" /\ LLM_AVAILABLE /\ Behaviour' \in DegradedBehaviours) =>
            /\ ~IsNone(llm_explanation')
            /\ Val(llm_explanation').t = "dict"
            /\ Get(Val(llm_explanation').v, "verdict", JNull) = JStr(Text("Needs Manual Review"))
            /\ score' = score - 10
            /\ Len(reasons') = Len(reasons) + 1
            /\ reasons'[Len(reasons')].msg = "LLM recommends manual review: {explanation}"
            /\ illegal' = illegal ]_vars

\* the clause under assessment has no category
NoCategory == "type" \notin DOMAIN clause \/ IsNone(clause["type"])

\* C10: whatever field of the clause is missing or None, and whatever numeric
\* value is None, no step before the oracle raises; a clause with no category
\* gets no category-specific check and still gets the fairness-pattern and
\* absolute-language checks.
MalformedClauseNeverRaises ==
    [][ /\ (pc \in {"call", "resolve", "statutory", "entry", "fairness", "penalty", "absolute"}
              => (pc' # "raised" /\ IsNone(exc')))
        /\ (pc \in {"statutory", "penalty"} /\ NoCategory
              => UNCHANGED <<illegal, reasons, score>>)
        /\ (pc = "fairness" /\ NoCategory => St' = FairnessCheck(St, text))
        /\ (pc = "absolute" /\ NoCategory => St' = AbsoluteCheck(St, text)) ]_vars

(***************************************************************************)
(* Properties of the oracle step and of the verdict                        *)
(***************************************************************************)
\* the reasons the oracle step appends
OracleMessages ==
    {"LLM flagged as illegal: {explanation}",
     "LLM flagged as potentially unfair: {explanation}",
     "LLM recommends manual review: {explanation}"}

\* C11: when no oracle implementation is available the oracle step is
\* skipped: it leaves illegal, reasons and score as the earlier steps made
\* them, the oracle opinion of the result is None, no reason of the result
\* comes from the oracle, and verdict, score and reasons of the result are
\* those of the earlier steps and the clamp.
OracleSkippedWhenUnavailable ==
    [][ ~LLM_AVAILABLE =>
          /\ (pc = "oracle" =>
                /\ pc' = "final"
                /\ IsNone(llm_explanation')
                /\ UNCHANGED <<illegal, reasons, score>>)
          /\ (pc = "final" =>
                /\ results'[Len(results')] = Result(illegal, score, reasons, None)
                /\ \A i \in DOMAIN reasons : reasons[i].msg \notin OracleMessages) ]_vars

\* a result without oracle whose earlier steps flagged the clause and added
\* further reasons
ReturnedWithoutOracle ==
    /\ pc = "returned"
    /\ ~LLM_AVAILABLE
    /\ IsNone(Returned.llm_explanation)
    /\ Returned.illegal
    /\ Len(Returned.reasons) >= 3

\* some pattern of FAIRNESS_PATTERNS matches the text of the clause
FairnessPatternMatched ==
    \E i \in DOMAIN FAIRNESS_PATTERNS : Search(FAIRNESS_PATTERNS[i].pattern, safe_lower(text))

\* C12: a result that is not illegal has verdict "Potentially Unfair" exactly
\* when its score is below 60 or a fairness pattern matched the clause text;
\* otherwise "Needs Manual Review" exactly when its score is below 80 and it
\* has a reason; otherwise "Legal".
VerdictFollowsScoreAndPatterns ==
    (pc = "returned" /\ ~Returned.illegal) =>
        Returned.verdict =
            IF Returned.score < 60 \/ FairnessPatternMatched THEN "Potentially Unfair"
            ELSE IF Returned.score < 80 /\ Returned.reasons # <<>> THEN "Needs Manual Review"
            ELSE "Legal"

(***************************************************************************)
(* assess_clause_legality_hybrid as a function of its arguments and of     *)
(* what the oracle does on the clause's prompt (None: no oracle)           *)
(***************************************************************************)
\* lines 174-221: the branch of the clause's category
StatutoryCheck(st, c, ty, n, ruleset, code) ==
    CASE ty = Some("bond")            -> BondCheck(st, c, n, ruleset, code)
      [] ty = Some("break_lease_fee") -> BreakLeaseCheck(st, c, n, ruleset, code)
      [] ty = Some("rent_increase")   -> RentIncreaseCheck(st, n, ruleset, code)
      [] OTHER                        -> st

\* v bound to a name and handed on: F(v)
Bind(v, F(_)) == CHOOSE y \in {F(x) : x \in {v}} : TRUE

\* a check applies to the running state unless an exception has left the call
Then(st, Check1(_)) == IF IsNone(st.exc) THEN Bind(st, Check1) ELSE st

\* lines 174-252: the deterministic checks, in the order of the source
DeterministicChecks(s0, c, ty, n, t, ruleset, code) ==
    Bind(Then(s0, LAMBDA s : StatutoryCheck(s, c, ty, n, ruleset, code)), LAMBDA s1 :
    Bind(Then(s1, LAMBDA s : EntryCheck(s, ty, t, n, ruleset, code)), LAMBDA s2 :
    Bind(Then(s2, LAMBDA s : FairnessCheck(s, t)), LAMBDA s3 :
    Bind(Then(s3, LAMBDA s : PenaltyCheck(s, ty, n)), LAMBDA s4 :
         Then(s4, LAMBDA s : AbsoluteCheck(s, t))))))

\* lines 257-297: the oracle step and the returned dict
OracleAndResult(s5, behaviour) ==
    IF ~IsNone(s5.exc) THEN Raised(s5.exc)
    ELSE IF IsNone(behaviour) THEN Result(s5.illegal, s5.score, s5.reasons, None)
    ELSE Bind(call_llm_for_clause(Val(behaviour)), LAMBDA llm_out :
         Bind(IntegrateOracle(s5, llm_out), LAMBDA s6 :
              IF IsNone(s6.exc)
              THEN Result(s6.illegal, s6.score, s6.reasons, OracleExplanation(llm_out))
              ELSE Raised(s6.exc)))

\* lines 157-297: [clause, result], the clause as the call leaves it
AssessClause(c, ruleset, code, behaviour) ==
    Bind(ResolveNumerics(c, Get(c, "numeric_values", Some(EmptyDict)), Get(c, "text", Some(<<>>))),
         LAMBDA r :
            [ clause |-> r.clause,
              result |-> OracleAndResult(
                            DeterministicChecks(
                                [exc |-> r.exc, illegal |-> FALSE, reasons |-> <<>>, score |-> 100],
                                c, Get(c, "type", Some("unknown")), r.nums,
                                Get(c, "text", Some(<<>>)), ruleset, code),
                            behaviour) ])

\* what the oracle did on the prompt of clause c, or None if it was not asked
Asked(c, code) ==
    IF llm_reasoning_prompt(c, code) \in DOMAIN llm_query
    THEN Some(llm_query[llm_reasoning_prompt(c, code)]) ELSE None

\* every call that has ended left what the function gives for its clause
CallsAgreeWithFunction ==
    \A i \in DOMAIN results :
        LET a == AssessClause(clauses[IF Len(clauses) = 1 THEN 1 ELSE i], state_rules, state_code,
                              Asked(clauses[IF Len(clauses) = 1 THEN 1 ELSE i], state_code))
        IN  results[i] = a.result

(***************************************************************************)
(* evaluate_contract from line 310 on: the comprehension of line 307 has   *)
(* assessed every clause, the oracle (if any) answering every prompt alike *)
(***************************************************************************)
\* at most this many clauses in an aggregated contract
MaxResults == 3

\* the clauses of ContractClauses the assessor returns a result for
AggregateClauses == {c \in ContractClauses : "text" \in DOMAIN c}

AggregateContracts == UNION {[1..n -> AggregateClauses] : n \in 0..MaxResults}

\* what the i-th call of the comprehension leaves
Assessed(cs, code, b, i) == AssessClause(cs[i], RulesOf(Upper(code)), Upper(code), b)

\* the state after the comprehension; the callee's locals are those of its last call
AfterComprehension(cs, code, b) ==
    /\ clauses = [i \in DOMAIN cs |-> Assessed(cs, code, b, i).clause]
    /\ results = [i \in DOMAIN cs |-> Assessed(cs, code, b, i).result]
    /\ state = code
    /\ state_code = Upper(code) /\ state_rules = RulesOf(Upper(code))
    /\ LLM_AVAILABLE = ~IsNone(b)
    /\ oracle = ContractBehaviours
    /\ llm_query = IF IsNone(b) THEN EmptyDict
                   ELSE [p \in {llm_reasoning_prompt(cs[i], Upper(code)) : i \in DOMAIN cs} |-> Val(b)]
    /\ idx = IF cs = <<>> THEN 1 ELSE Len(cs)
    /\ calls = Len(cs)
    /\ exc = None /\ report = None
    /\ IF cs = <<>>
       THEN /\ ctype = None /\ nums = None /\ text = None
            /\ reasons = <<>> /\ illegal = FALSE /\ score = 100
            /\ llm_explanation = None
       ELSE /\ ctype = Get(cs[Len(cs)], "type", Some("unknown"))
            /\ nums = Get(Assessed(cs, code, b, Len(cs)).clause, "numeric_values", Some(EmptyDict))
            /\ text = Get(cs[Len(cs)], "text", Some(<<>>))
            /\ reasons = Assessed(cs, code, b, Len(cs)).result.reasons
            /\ illegal = Assessed(cs, code, b, Len(cs)).result.illegal
            /\ score = Assessed(cs, code, b, Len(cs)).result.score
            /\ llm_explanation = Assessed(cs, code, b, Len(cs)).result.llm_explanation
    /\ pc = "aggregate"
    /\ ServerStarted

InitAggregate ==
    \E cs \in AggregateContracts, code \in StateCodes,
       b \in {None} \cup {Some(x) : x \in ContractBehaviours} :
        AfterComprehension(cs, code, b)

NextAggregate == Aggregate

SpecAggregate == InitAggregate /\ [][NextAggregate]_vars

(***************************************************************************)
(* Properties of the aggregation                                           *)
(***************************************************************************)
\* the sum of the per-clause scores
ScoreSum == SumSeq([i \in DOMAIN results |-> results[i].score])

IllegalResults == {i \in DOMAIN results : results[i].illegal}

UnfairResults == {i \in DOMAIN results : results[i].verdict = "Potentially Unfair"}

\* the counts of the report, and its overall verdict when no clause is
\* illegal, given whether the average is below 70
CountsAndVerdict(average_below_70) ==
    /\ Val(report).clauses_evaluated = Len(clauses)
    /\ Val(report).illegal_count = Cardinality(IllegalResults)
    /\ IllegalResults = {} =>
          Val(report).overall_verdict =
              IF UnfairResults # {} \/ average_below_70
              THEN "Potentially Unfair - Review Recommended" ELSE "Legal"

\* C13 as stated: the report's clauses_evaluated is the number of clauses,
\* its illegal_count the number of illegal results and its average_score
\* the mean of the per-clause scores; with no illegal result the overall
\* verdict is "Potentially Unfair - Review Recommended" exactly when some
\* clause verdict is "Potentially Unfair" or average_score < 70, else "Legal".
ReportHasExactMean ==
    (pc = "done" /\ clauses # <<>>) =>
        /\ Val(report).average_score_x10 * Len(results) = 10 * ScoreSum
        /\ CountsAndVerdict(Val(report).average_score_x10 < 700)

\* C13, amended: as stated, except that average_score is the mean of the
\* per-clause scores rounded to one decimal place, and the test against 70
\* is made on the mean itself.
ReportHasRoundedMean ==
    (pc = "done" /\ clauses # <<>>) =>
        LET n == Len(results)
            d == Val(report).average_score_x10 * n - 10 * ScoreSum
        IN  /\ 2 * d <= n /\ 2 * d >= -n
            /\ CountsAndVerdict(ScoreSum < 70 * n)

\* a report of three clauses, none illegal, whose mean has more than one decimal
ReportWithRoundedAverage ==
    /\ pc = "done"
    /\ Len(results) = 3
    /\ IllegalResults = {}
    /\ ScoreSum % 3 = 2
    /\ Val(report).overall_verdict = "Potentially Unfair - Review Recommended"

(***************************************************************************)
(* One assessor call with a ruleset that lacks categories or limits        *)
(***************************************************************************)
\* the rulesets a caller passes: the empty one of an unknown jurisdiction,
\* VIC's (no break_lease_fee), categories without limits, and a
\* rent_increase category with one of its two limits
PartialRulesets ==
    { EmptyDict,
      RulesOf("VIC"),
      [bond |-> EmptyDict, break_lease_fee |-> EmptyDict, rent_increase |-> EmptyDict],
      [bond |-> [max_weeks |-> 4], rent_increase |-> [max_frequency_months |-> 12]] }

InitDefaults ==
    /\ \E c \in NumericClauses : clauses = <<c>>
    /\ state_rules \in PartialRulesets
    /\ state_code = (IF state_rules = RulesOf("VIC") THEN "VIC" ELSE "QLD")
    /\ state = state_code
    /\ LLM_AVAILABLE \in BOOLEAN
    /\ oracle = ContractBehaviours
    /\ pc = "call"
    /\ InitLocals

NextDefaults == Assess

SpecDefaults == InitDefaults /\ [][NextDefaults]_vars

\* the documented defaults of the statutory checks
DocumentedDefaults ==
    [ bond            |-> [max_weeks |-> 4],
      break_lease_fee |-> [max_weeks |-> 4],
      rent_increase   |-> [min_notice_days |-> 60, max_frequency_months |-> 12] ]

\* the ruleset with every missing category and limit filled in from the defaults
WithDefaults(ruleset) ==
    [ cat \in DOMAIN DocumentedDefaults |->
        [ k \in DOMAIN DocumentedDefaults[cat] |->
            Get(Get(ruleset, cat, EmptyDict), k, DocumentedDefaults[cat][k]) ] ]

\* C14: with a jurisdiction code that is not in the rule table, or a ruleset
\* lacking a category or a limit, the assessment does not fail and each
\* statutory check does what it does under the ruleset completed with the
\* documented defaults: bond cap 4 weeks, break-lease cap 4 weeks,
\* rent-increase minimum notice 60 days and minimum frequency 12 months.
MissingLimitsUseDefaults ==
    [][ /\ pc' # "raised"
        /\ pc = "statutory" =>
              /\ pc' = "entry"
              /\ St' = StatutoryCheck(St, clause, ctype, nums, WithDefaults(state_rules), state_code) ]_vars

\* a rent-increase clause flagged under the empty ruleset for a notice
\* below the default of 60 days
FlaggedByDefaultNotice ==
    /\ pc = "returned"
    /\ state_rules = EmptyDict
    /\ ctype = Some("rent_increase")
    /\ Returned.illegal
    /\ Returned.reasons[1].args = <<Some(5), "QLD", 60>>

(***************************************************************************)
(* Independence of the clauses of a contract                               *)
(***************************************************************************)
\* the results in the order p of their clauses
Reordered(p) == [i \in DOMAIN results |-> results[p[i]]]

HasNumber(k) == HasKey(nums, k) /\ ~IsNone(Val(nums)[k])

Number(k) == Val(Val(nums)[k])

Limits == WithDefaults(state_rules)

\* the resolved numbers of the clause break a limit of the jurisdiction:
\* a bond above the cap (in weeks, or in money when no weeks are given and
\* the weekly rent is known), a break-lease fee above the cap (in weeks or
\* in money), a rent increase with too short a notice or too short an
\* interval
StatutoryRuleViolated ==
    CASE ctype = Some("bond") ->
            \/ HasNumber("weeks") /\ Number("weeks") > Limits.bond.max_weeks
            \/ /\ ~HasKey(nums, "weeks")
               /\ HasNumber("amount")
               /\ TruthyNum(Get(clause, "weekly_rent", None))
               /\ Number("amount") > Val(clause["weekly_rent"]) * Limits.bond.max_weeks
      [] ctype = Some("break_lease_fee") ->
            \/ HasNumber("weeks") /\ Number("weeks") > Limits.break_lease_fee.max_weeks
            \/ /\ HasNumber("amount")
               /\ "weekly_rent" \in DOMAIN clause
               /\ ~IsNone(clause["weekly_rent"])
               /\ Number("amount") > Val(clause["weekly_rent"]) * Limits.break_lease_fee.max_weeks
      [] ctype = Some("rent_increase") ->
            \/ HasNumber("days") /\ Number("days") < Limits.rent_increase.min_notice_days
            \/ HasNumber("months") /\ Number("months") < Limits.rent_increase.max_frequency_months
      [] OTHER -> FALSE

\* the oracle gave an opinion whose verdict text contains "illegal"
OracleSaidIllegal ==
    /\ ~IsNone(Returned.llm_explanation)
    /\ LET x == Get(Val(Returned.llm_explanation).v, "verdict", JStr(<<>>))
       IN  x.t = "str" /\ Search(CONTAINS_ILLEGAL, safe_lower(Some(x.v)))

NoNumericValues(c) == Get(c, "numeric_values", Some(EmptyDict)) \in {None, Some(EmptyDict)}

\* C17: no step of an assessment changes the text, the category, weekly_rent
\* or any field of a clause other than numeric_values, and numeric_values is
\* changed in one case only: the clause being assessed arrived without
\* numeric values and the extractor found at least one value in its text;
\* then numeric_values is exactly what the extractor found. Supplied numeric
\* values are never overwritten or merged.
AssessmentChangesOnlyMissingNumerics ==
    [][ /\ DOMAIN clauses' = DOMAIN clauses
        /\ \A i \in DOMAIN clauses :
              LET c  == clauses[i]
                  c2 == clauses'[i]
              IN  /\ DOMAIN c2 \subseteq DOMAIN c \cup {"numeric_values"}
                  /\ \A k \in DOMAIN c \ {"numeric_values"} : k \in DOMAIN c2 /\ c2[k] = c[k]
                  /\ c2 # c =>
                        /\ pc = "resolve" /\ i = idx
                        /\ NoNumericValues(c)
                        /\ ~IsNone(Get(c, "text", Some(<<>>)))
                        /\ extract_numbers_from_text(Val(Get(c, "text", Some(<<>>)))) # EmptyDict
                        /\ c2["numeric_values"] =
                              Some(extract_numbers_from_text(Val(Get(c, "text", Some(<<>>)))))
                  /\ ~NoNumericValues(c) => c2 = c ]_vars

\* an assessment has returned for a clause with a text and extracted numeric
\* values attached
ReturnedWithAttachedNumerics ==
    /\ pc = "returned"
    /\ {"text", "numeric_values"} \subseteq DOMAIN clause
    /\ ~IsNone(clause["text"])
    /\ clause["numeric_values"] = Some(extract_numbers_from_text(Val(clause["text"])))
    /\ nums = clause["numeric_values"]

\* an assessment has returned for a clause whose text holds numbers other
\* than the numeric values it was given
ReturnedWithSuppliedNumerics ==
    /\ pc = "returned"
    /\ {"text", "numeric_values"} \subseteq DOMAIN clause
    /\ ~IsNone(clause["text"])
    /\ extract_numbers_from_text(Val(clause["text"])) # EmptyDict
    /\ clause["numeric_values"] # Some(extract_numbers_from_text(Val(clause["text"])))


(***************************************************************************)
(* The reading of the oracle's verdict                                     *)
(***************************************************************************)
\* the verdict text of an opinion held in llm_explanation: empty when there
\* is no opinion, no verdict, or a verdict that is not a text
VerdictText(opinion) ==
    IF IsNone(opinion) THEN <<>>
    ELSE LET x == Get(Val(opinion).v, "verdict", JStr(<<>>))
         IN  IF x.t = "str" THEN x.v ELSE <<>>

\* the oracle step added exactly one reason with this message, deducted pts
\* and left the earlier reasons alone
OracleStepAdded(msg, pts) ==
    /\ Len(reasons') = Len(reasons) + 1
    /\ SubSeq(reasons', 1, Len(reasons)) = reasons
    /\ reasons'[Len(reasons')].msg = msg
    /\ score' = score - pts

\* C18: an oracle step that completes reads the verdict text in priority
\* order: if it contains "illegal", illegal is set, 30 is deducted and one
\* reason is appended; else if it contains "unfair", 20 is deducted and one
\* reason is appended; else if it contains "manual", 10 is deducted and one
\* reason is appended; otherwise illegal, score and reasons are unchanged.
\* Only the first branch sets illegal, and never more than one reason is
\* appended.
OracleVerdictReadInPriorityOrder ==
    [][ (pc = "oracle" /\ pc' = "final") =>
          LET v == VerdictText(llm_explanation')
          IN  IF Search(CONTAINS_ILLEGAL, v)
              THEN illegal' /\ OracleStepAdded("LLM flagged as illegal: {explanation}", 30)
              ELSE IF Search(CONTAINS_UNFAIR, v)
              THEN illegal' = illegal
                   /\ OracleStepAdded("LLM flagged as potentially unfair: {explanation}", 20)
              ELSE IF Search(CONTAINS_MANUAL, v)
              THEN illegal' = illegal
                   /\ OracleStepAdded("LLM recommends manual review: {explanation}", 10)
              ELSE UNCHANGED <<illegal, score, reasons>> ]_vars

\* a result whose oracle verdict contains both "unfair" and "illegal": the
\* clause was not flagged before the oracle step, and is flagged after it
\* with one oracle reason
ReturnedWithUnfairAndIllegalVerdict ==
    /\ pc = "returned"
    /\ Search(CONTAINS_ILLEGAL, VerdictText(Returned.llm_explanation))
    /\ Search(CONTAINS_UNFAIR, VerdictText(Returned.llm_explanation))
    /\ ~StatutoryRuleViolated
    /\ Returned.illegal
    /\ Len(Returned.reasons) = 1


(***************************************************************************)
(* The bond check (rule_engine.py lines 174-191)                           *)
(***************************************************************************)
\* the bond check has acted on a bond clause and did not raise
BondStep == pc = "statutory" /\ ctype = Some("bond") /\ pc' = "entry"

BondWeeksOverCap == HasNumber("weeks") /\ Number("weeks") > Limits.bond.max_weeks

WeeklyRentKnown == TruthyNum(Get(clause, "weekly_rent", None))

BondAmountOverCeiling ==
    /\ HasNumber("amount")
    /\ WeeklyRentKnown
    /\ Number("amount") > Val(clause["weekly_rent"]) * Limits.bond.max_weeks

\* C19: the bond check flags the clause as illegal and deducts 40 exactly
\* when the week count is present and above the cap or, the week check not
\* having flagged, an amount is present, weekly_rent is known and the amount
\* is above weekly_rent x max_weeks; so a bond with a week count within the
\* cap and an amount above the ceiling is flagged. The bond check never
\* deducts more than 40.
BondFlaggedExactlyWhenOverCap ==
    [][ BondStep =>
          /\ (illegal' /\ score' = score - 40) <=> (BondWeeksOverCap \/ BondAmountOverCeiling)
          /\ score' >= score - 40 ]_vars

\* C20: for a bond clause with an amount and no week count, whenever
\* weekly_rent is unknown (absent, None or zero) the bond check deducts 5 and
\* appends the advisory reason, without flagging the clause.
UnknownRentBondGetsAdvisory ==
    [][ (BondStep /\ ~HasKey(nums, "weeks") /\ HasNumber("amount") /\ ~WeeklyRentKnown) =>
          /\ score' = score - 5
          /\ reasons' = Append(reasons, BondAdvisory)
          /\ illegal' = illegal ]_vars


(***************************************************************************)
(* The break-lease and rent-increase checks (rule_engine.py lines 194-221) *)
(***************************************************************************)
\* 1 when the condition holds, else 0
Fired(b) == IF b THEN 1 ELSE 0

BreakLeaseWeeksOverCap ==
    HasNumber("weeks") /\ Number("weeks") > Limits.break_lease_fee.max_weeks

BreakLeaseAmountOverCeiling ==
    /\ HasNumber("amount")
    /\ "weekly_rent" \in DOMAIN clause
    /\ ~IsNone(clause["weekly_rent"])
    /\ Number("amount") > Val(clause["weekly_rent"]) * Limits.break_lease_fee.max_weeks

NoticeBelowMinimum ==
    HasNumber("days") /\ Number("days") < Limits.rent_increase.min_notice_days

FrequencyBelowMinimum ==
    HasNumber("months") /\ Number("months") < Limits.rent_increase.max_frequency_months

\* a statutory step that did not raise appended n reasons, deducted pts for
\* each and flagged the clause when n > 0
SubChecksAdded(n, pts) ==
    /\ Len(reasons') = Len(reasons) + n
    /\ SubSeq(reasons', 1, Len(reasons)) = reasons
    /\ score' = score - n * pts
    /\ illegal' = (illegal \/ n > 0)

\* C21: the two sub-checks of the break-lease check and the two of the
\* rent-increase check are independent and additive: each one that fires
\* appends one reason and deducts 35 (break lease) or 30 (rent increase), so
\* a clause breaking both limits gets two reasons and 70 or 60 points off;
\* a rent increase breaking both, with no text match and no oracle, returns
\* illegal, score 40, verdict "Illegal".
SubChecksAreAdditive ==
    [][ /\ (pc = "statutory" /\ pc' = "entry" /\ ctype = Some("break_lease_fee")) =>
              SubChecksAdded(Fired(BreakLeaseWeeksOverCap) + Fired(BreakLeaseAmountOverCeiling), 35)
        /\ (pc = "statutory" /\ pc' = "entry" /\ ctype = Some("rent_increase")) =>
              SubChecksAdded(Fired(NoticeBelowMinimum) + Fired(FrequencyBelowMinimum), 30)
        /\ (/\ pc = "final" /\ ctype = Some("rent_increase")
            /\ NoticeBelowMinimum /\ FrequencyBelowMinimum
            /\ NoTextMatch /\ ~LLM_AVAILABLE) =>
              /\ results'[Len(results')].illegal
              /\ results'[Len(results')].score = 40
              /\ results'[Len(results')].verdict = "Illegal"
              /\ Len(results'[Len(results')].reasons) = 2 ]_vars

\* a break-lease clause above the cap in weeks and in money, returned
\* without oracle and text match: 70 points off, two reasons
BreakLeaseOverBothReturned ==
    /\ pc = "returned"
    /\ ctype = Some("break_lease_fee")
    /\ BreakLeaseWeeksOverCap /\ BreakLeaseAmountOverCeiling
    /\ NoTextMatch /\ ~LLM_AVAILABLE
    /\ Returned.score = 30
    /\ Len(Returned.reasons) = 2


(***************************************************************************)
(* The entry-notice check (rule_engine.py lines 224-232)                   *)
(***************************************************************************)
EntryMessage ==
    "Entry notice of {days} days is shorter than {state_code} allowed routine inspection notice ({allowed})"

\* the jurisdiction has a routine-inspection minimum and the day count of
\* the clause is below it
EntryNoticeBelowMinimum ==
    LET entry_rules == Get(state_rules, "entry_notice_days", EmptyDict)
    IN  /\ HasNumber("days")
        /\ "routine_inspection" \in DOMAIN entry_rules
        /\ entry_rules["routine_inspection"] # 0
        /\ Number("days") < entry_rules["routine_inspection"]

\* the category is entry or the text contains "entry"
EntryClause == ctype = Some("entry") \/ (~IsNone(text) /\ Search(CONTAINS_ENTRY, Val(text)))

\* C22: the entry-notice check applies to a clause of any category whose
\* category is entry or whose text contains "entry"; when a day count is
\* present and below the routine-inspection minimum of the jurisdiction it
\* deducts exactly 10 and appends one advisory reason; otherwise it does
\* nothing; it never sets illegal.
EntryCheckIsAdvisory ==
    [][ (pc = "entry" /\ pc' = "fairness") =>
          /\ illegal' = illegal
          /\ IF EntryClause /\ EntryNoticeBelowMinimum
             THEN /\ score' = score - 10
                  /\ Len(reasons') = Len(reasons) + 1
                  /\ SubSeq(reasons', 1, Len(reasons)) = reasons
                  /\ reasons'[Len(reasons')].msg = EntryMessage
             ELSE UNCHANGED <<score, reasons>> ]_vars

\* a clause of category "other" whose text mentions entry with a short
\* notice: the result has the entry advisory and is not illegal
OtherClauseWithEntryAdvisory ==
    /\ pc = "returned"
    /\ ctype = Some("other")
    /\ ~Returned.illegal
    /\ \E i \in DOMAIN Returned.reasons : Returned.reasons[i].msg = EntryMessage


(***************************************************************************)
(* Which category-specific branches contribute to a result                 *)
(***************************************************************************)
\* the reasons each category-specific branch can append
BranchMessages ==
    [ bond |-> {"Bond of {weeks} weeks exceeds {state_code} maximum of {max_weeks} weeks",
                "Bond amount ${amount} exceeds maximum of ${max_amount} ({max_weeks} weeks x ${weekly_rent})",
                "Bond amount present but weekly_rent not provided - cannot fully validate"},
      break_lease_fee |->
               {"Break-lease fee of {weeks} weeks exceeds {state_code} maximum of {max_weeks} weeks",
                "Break-lease fee ${amount} exceeds maximum of ${max_amount} ({max_weeks} weeks x ${weekly_rent})"},
      rent_increase |->
               {"Rent increase notice period of {days} days is less than {state_code} minimum of {min_notice} days",
                "Rent increases cannot occur more frequently than every {max_freq} months (clause mentions {months} months)"},
      entry   |-> {EntryMessage},
      penalty |-> {"Penalty of {weeks} weeks is likely excessive"} ]

\* the branches that contributed a reason to the result r
Contributing(r) ==
    {b \in DOMAIN BranchMessages : \E i \in DOMAIN r.reasons : r.reasons[i].msg \in BranchMessages[b]}

\* C23 as stated: the category-specific checks are dispatched purely on the
\* category of the clause, and at most one of the branches bond,
\* break_lease_fee, rent_increase, entry, penalty contributes to a result.
OneBranchByCategory ==
    pc = "returned" =>
        /\ Cardinality(Contributing(Returned)) <= 1
        /\ \A b \in Contributing(Returned) : ctype = Some(b)

\* C23: the bond, break_lease_fee, rent_increase and penalty checks are
\* dispatched purely on the category of the clause and at most one of them
\* contributes to a result; the entry check contributes only to a clause
\* whose category is entry or whose text contains "entry", and may do so
\* beside one of the others.
OneBranchByCategoryBesideEntry ==
    pc = "returned" =>
        /\ Cardinality(Contributing(Returned) \ {"entry"}) <= 1
        /\ \A b \in Contributing(Returned) \ {"entry"} : ctype = Some(b)
        /\ "entry" \in Contributing(Returned) => EntryClause

\* a rent-increase clause whose text mentions entry: the rent-increase
\* branch and the entry branch both contributed
RentIncreaseWithEntryAdvisory ==
    /\ pc = "returned"
    /\ ctype = Some("rent_increase")
    /\ Contributing(Returned) = {"rent_increase", "entry"}


(***************************************************************************)
(* The penalty check (rule_engine.py lines 244-247)                        *)
(***************************************************************************)
PenaltyOverThreshold ==
    ctype = Some("penalty") /\ HasNumber("weeks") /\ Number("weeks") > 2

\* C24: for a penalty clause a week count above 2 deducts exactly 20 and
\* appends one reason without setting illegal; a week count of 2 or less, or
\* another category, triggers nothing; with no text match and no oracle the
\* result of a penalty above 2 weeks is illegal = false, score 80, verdict
\* "Legal".
PenaltyIsFairnessOnly ==
    [][ /\ (pc = "penalty" /\ pc' = "absolute") =>
              /\ illegal' = illegal
              /\ IF PenaltyOverThreshold
                 THEN /\ score' = score - 20
                      /\ reasons' = Append(reasons, Reason("Penalty of {weeks} weeks is likely excessive",
                                                           <<Val(nums)["weeks"]>>))
                 ELSE UNCHANGED <<score, reasons>>
        /\ (pc = "final" /\ PenaltyOverThreshold /\ NoTextMatch /\ ~LLM_AVAILABLE) =>
              /\ ~results'[Len(results')].illegal
              /\ results'[Len(results')].score = 80
              /\ results'[Len(results')].verdict = "Legal"
              /\ Len(results'[Len(results')].reasons) = 1 ]_vars

\* a penalty of more than 2 weeks returned as "Legal" with score 80
ExcessivePenaltyReturnedLegal ==
    /\ pc = "returned"
    /\ PenaltyOverThreshold /\ NoTextMatch /\ ~LLM_AVAILABLE
    /\ Returned.verdict = "Legal"
    /\ Returned.score = 80

\* a penalty of exactly 2 weeks returned with nothing deducted
PenaltyAtThresholdReturned ==
    /\ pc = "returned"
    /\ ctype = Some("penalty") /\ HasNumber("weeks") /\ Number("weeks") = 2
    /\ Returned.score = 100


(***************************************************************************)
(* The text-based deductions (rule_engine.py lines 238-252)                *)
(***************************************************************************)
\* the positions of the patterns of FAIRNESS_PATTERNS that match the text
MatchingPatterns ==
    {i \in DOMAIN FAIRNESS_PATTERNS : Search(FAIRNESS_PATTERNS[i].pattern, Val(text))}

\* the sum of severity x 2 over the patterns at the positions in S
RECURSIVE Deduction(_)
Deduction(S) ==
    IF S = {} THEN 0
    ELSE LET i == CHOOSE i \in S : TRUE
         IN  FAIRNESS_PATTERNS[i].severity * 2 + Deduction(S \ {i})

\* the pattern list in the order p
Listed(p) == [i \in DOMAIN FAIRNESS_PATTERNS |-> FAIRNESS_PATTERNS[p[i]]]

\* the reasons of st, their order forgotten
ReasonSet(st) == {st.reasons[i] : i \in DOMAIN st.reasons}

\* C25: every fairness pattern that matches the text appends one
\* "Potentially unfair" reason and deducts severity x 2; the
\* absolute-language check deducts 15 once and appends one reason when the
\* text holds one or more absolute phrases; the two are independent, so a
\* clause can get both; and with the patterns listed in any other order the
\* pattern loop leaves the same score, the same illegal flag and the same
\* reasons up to their order, hence the same verdict.
TextDeductionsAreAdditive ==
    [][ /\ (pc = "fairness" /\ pc' = "penalty") =>
              /\ illegal' = illegal
              /\ score' = score - Deduction(MatchingPatterns)
              /\ Len(reasons') = Len(reasons) + Cardinality(MatchingPatterns)
              /\ SubSeq(reasons', 1, Len(reasons)) = reasons
              /\ {reasons'[i] : i \in (Len(reasons) + 1)..Len(reasons')} =
                    {FairnessReason(FAIRNESS_PATTERNS[i].reason) : i \in MatchingPatterns}
              /\ \A p \in Permutations(DOMAIN FAIRNESS_PATTERNS) :
                    LET out == FairnessLoop(St, Listed(p), text, 1)
                    IN  /\ out.score = score'
                        /\ out.illegal = illegal'
                        /\ Len(out.reasons) = Len(reasons')
                        /\ ReasonSet(out) = {reasons'[i] : i \in DOMAIN reasons'}
                        /\ DecideVerdict(out.illegal, Clamp(out.score), out.reasons) =
                              DecideVerdict(illegal', Clamp(score'), reasons')
        /\ (pc = "absolute" /\ pc' = "oracle") =>
              /\ illegal' = illegal
              /\ IF Search(ABSOLUTE_LANGUAGE, Val(text))
                 THEN /\ score' = score - 15
                      /\ reasons' = Append(reasons, Reason("Clause uses absolute language that often indicates unfair or illegal terms", <<>>))
                 ELSE UNCHANGED <<score, reasons>> ]_vars

\* a text of two lines with absolute phrases, one of them also matching a
\* fairness pattern, and a line matching two patterns is possible too: here
\* the result holds the pattern reason and one absolute-language reason
PatternAndAbsoluteReturned ==
    /\ pc = "returned"
    /\ ~IsNone(text) /\ Len(Val(text)) = 2
    /\ \A i \in 1..2 : Val(text)[i] \in ABSOLUTE_LANGUAGE
    /\ Val(text)[1] # Val(text)[2]
    /\ MatchingPatterns # {}
    /\ Cardinality({i \in DOMAIN Returned.reasons :
                      Returned.reasons[i].msg = "Clause uses absolute language that often indicates unfair or illegal terms"}) = 1
    /\ \E i \in DOMAIN Returned.reasons : Returned.reasons[i].msg = "Potentially unfair: {reason_text}"


(***************************************************************************)
(* The order of the reasons of a result                                    *)
(***************************************************************************)
AbsoluteMessage == "Clause uses absolute language that often indicates unfair or illegal terms"

\* the step of the specification's processing order a reason comes from:
\* 2 category-specific checks (penalty among them), 3 fairness patterns,
\* 4 absolute language, 5 oracle
SpecifiedStep(msg) ==
    IF \E b \in DOMAIN BranchMessages : msg \in BranchMessages[b] THEN 2
    ELSE IF msg = "Potentially unfair: {reason_text}" THEN 3
    ELSE IF msg = AbsoluteMessage THEN 4
    ELSE 5

\* the place of the check a reason comes from in the code: statutory checks,
\* entry check, fairness patterns, penalty check, absolute language, oracle
CodeStep(msg) ==
    IF msg \in BranchMessages.bond \cup BranchMessages.break_lease_fee \cup BranchMessages.rent_increase
    THEN 1
    ELSE IF msg \in BranchMessages.entry THEN 2
    ELSE IF msg = "Potentially unfair: {reason_text}" THEN 3
    ELSE IF msg \in BranchMessages.penalty THEN 4
    ELSE IF msg = AbsoluteMessage THEN 5
    ELSE 6

\* reasons only grows at its end
ReasonsAppendOnly ==
    Len(reasons') >= Len(reasons) /\ SubSeq(reasons', 1, Len(reasons)) = reasons

\* C26 as stated: reasons is append-only during an assessment and the
\* reasons of a result stand in the order of the steps: category-specific
\* reasons (the penalty reason among them) before fairness-pattern reasons,
\* these before the absolute-language reason, this before the oracle reason.
ReasonsInSpecifiedOrder ==
    [][ /\ ReasonsAppendOnly
        /\ pc' = "returned" =>
              \A i, j \in DOMAIN results'[Len(results')].reasons :
                  i < j => SpecifiedStep(results'[Len(results')].reasons[i].msg)
                              <= SpecifiedStep(results'[Len(results')].reasons[j].msg) ]_vars

\* C26: reasons is append-only during an assessment and the reasons of a
\* result stand in the order of the checks: statutory reasons (bond,
\* break-lease, rent-increase), then the entry reason, then the
\* fairness-pattern reasons, then the penalty reason, then the
\* absolute-language reason, then the oracle reason.
ReasonsInCodeOrder ==
    [][ /\ ReasonsAppendOnly
        /\ pc' = "returned" =>
              \A i, j \in DOMAIN results'[Len(results')].reasons :
                  i < j => CodeStep(results'[Len(results')].reasons[i].msg)
                              <= CodeStep(results'[Len(results')].reasons[j].msg) ]_vars

\* a penalty clause whose result lists a fairness-pattern reason before the
\* penalty reason
PenaltyReasonAfterPatternReason ==
    /\ pc = "returned"
    /\ \E i, j \in DOMAIN Returned.reasons :
          /\ i < j
          /\ Returned.reasons[i].msg = "Potentially unfair: {reason_text}"
          /\ Returned.reasons[j].msg \in BranchMessages.penalty


(***************************************************************************)
(* MainAgent.extract_and_classify (backend/agent/agent.py lines 26-86)     *)
(***************************************************************************)
\* clauses as the extraction returns them (MockLLMAdapter.generate): the
\* text is under "original_text", and "illegal" is what the extraction
\* said, False with the mock adapter
ExtractedNumerics ==
    {EmptyDict, [weeks |-> Some(6)], [weeks |-> Some(4)], [days |-> Some(30), months |-> Some(6)]}

ExtractedClauses ==
    { [type |-> Some(ty), original_text |-> Some(Text(L_BOND6)), numeric_values |-> Some(nv),
       illegal |-> Some(said)] :
        ty \in {"bond", "break_lease_fee", "rent_increase", "other"},
        nv \in ExtractedNumerics, said \in BOOLEAN }

Extractions == UNION {[1..n -> ExtractedClauses] : n \in 0..MaxClauses}

\* line 32-35: extraction = self.llm.generate(...); clauses = extraction.get("clauses", [])
InitAgent ==
    /\ clauses \in Extractions
    /\ state \in {"NSW", "QLD"}
    /\ state_code = "" /\ state_rules = EmptyDict
    /\ LLM_AVAILABLE \in BOOLEAN
    /\ oracle = ContractBehaviours
    /\ pc = "extracted"
    /\ InitLocals

\* line 38: rules = STATE_RULES.get(self.state, {}), and the first iteration
\* of the loop of line 42
AgentRules ==
    /\ pc = "extracted"
    /\ state_rules' = Get(STATE_RULES, state, EmptyDict)
    /\ state_code' = state
    /\ idx' = 1
    /\ pc' = IF clauses = <<>> THEN "report" ELSE "call"
    /\ UNCHANGED <<server, inputs, llm_query, calls, locals, reasons, illegal, score,
                   llm_explanation, exc, results, report>>

\* lines 42-47: the call is a statement; what it returned (kept in results)
\* is not assigned to anything, and the loop goes on
AgentNextClause ==
    /\ pc = "returned"
    /\ IF idx < Len(clauses)
       THEN idx' = idx + 1 /\ pc' = "call"
       ELSE idx' = idx /\ pc' = "report"
    /\ UNCHANGED <<server, inputs, rules, llm_query, calls, locals, reasons, illegal, score,
                   llm_explanation, exc, results, report>>

\* line 65: illegal = [c for c in clauses if c.get("illegal")], as positions
generate_human_readable_report(cs) ==
    [ illegal |-> {i \in DOMAIN cs : Get(cs[i], "illegal", None) = Some(TRUE)} ]

\* lines 50-56
BuildReport ==
    /\ pc = "report"
    /\ report' = Some([clauses |-> clauses, summary |-> generate_human_readable_report(clauses)])
    /\ pc' = "done"
    /\ UNCHANGED <<server, inputs, rules, llm_query, idx, calls, locals, reasons, illegal, score,
                   llm_explanation, exc, results>>

NextAgent == Assess \/ AgentRules \/ AgentNextClause \/ BuildReport

SpecAgent == InitAgent /\ [][NextAgent]_vars

\* C27: the report of extract_and_classify reflects the assessment of every
\* clause: a clause the assessor returned illegal = true for has
\* illegal = true in the clauses of the report and is listed in the illegal
\* section of the summary.
ReportReflectsAssessment ==
    pc = "done" =>
        /\ Len(results) = Len(clauses)
        /\ \A i \in DOMAIN results :
              results[i].illegal =>
                  /\ Get(Val(report).clauses[i], "illegal", None) = Some(TRUE)
                  /\ i \in Val(report).summary.illegal


(***************************************************************************)
(* Consistency of reasons, score and illegal in a result                   *)
(***************************************************************************)
\* C28: in every returned result reasons is empty exactly when the score is
\* 100, and illegal = true implies a non-empty reasons and a score of at
\* most 70; during the assessment a step deducts exactly when it appends a
\* reason.
ResultIsConsistent ==
    [][ /\ (pc \in CheckSteps) => ((Len(reasons') > Len(reasons)) <=> (score' < score))
        /\ pc' = "returned" =>
              LET r == results'[Len(results')]
              IN  /\ (r.reasons = <<>>) <=> (r.score = 100)
                  /\ r.illegal => (r.reasons # <<>> /\ r.score <= 70) ]_vars

\* an illegal result at the boundary: one reason, score 70
IllegalResultWithScore70 ==
    /\ pc = "returned"
    /\ Returned.illegal
    /\ Returned.score = 70
    /\ Len(Returned.reasons) = 1


(***************************************************************************)
(* The rate limiter of POST /chat (backend/app/api/endpoints.py lines      *)
(* 26-53). chat is a plain def: FastAPI runs it on a worker thread, so     *)
(* requests interleave between its statements.                             *)
(***************************************************************************)
\* Settings.RATE_LIMIT_SECONDS
RATE_LIMIT_SECONDS == 6

\* the variables of the rule engine and of the agent
engine == <<clauses, state_rules, state_code, LLM_AVAILABLE, oracle, llm_query, pc, idx, calls,
            ctype, nums, text, reasons, illegal, score, llm_explanation, exc, results,
            state, report>>

\* the user ids a ChatRequest may carry
RequestUserIds == {None, Some(0), Some(1)}

\* no engine call is running beside the web application
EngineIdle ==
    /\ clauses = <<>>
    /\ state = "NSW" /\ state_code = "" /\ state_rules = EmptyDict
    /\ LLM_AVAILABLE = FALSE /\ oracle = {}
    /\ pc = "idle"

InitChat == EngineIdle /\ InitLocals

\* lines 38-39: user_id = req.user_id or 0; now = datetime.now()
ChatNow(r) ==
    /\ chat[r].pc = "idle"
    /\ \E uid \in RequestUserIds :
          chat' = [chat EXCEPT ![r] = [pc |-> "prune",
                                       user_id |-> IF TruthyNum(uid) THEN Val(uid) ELSE 0,
                                       now |-> clock]]
    /\ UNCHANGED <<engine, user_requests, clock, documents, analysis>>

\* the timestamps of ts younger than RATE_LIMIT_SECONDS at the time now
Recent(ts, now) == SelectSeq(ts, LAMBDA t : now - t < RATE_LIMIT_SECONDS)

\* lines 41-44: user_requests[user_id] = [the recent timestamps]
ChatPrune(r) ==
    /\ chat[r].pc = "prune"
    /\ user_requests' = [user_requests EXCEPT
                            ![chat[r].user_id] = Recent(user_requests[chat[r].user_id], chat[r].now)]
    /\ chat' = [chat EXCEPT ![r].pc = "check"]
    /\ UNCHANGED <<engine, clock, documents, analysis>>

\* lines 46-51: if len(user_requests[user_id]) >= 1: raise HTTPException(429)
ChatCheck(r) ==
    /\ chat[r].pc = "check"
    /\ chat' = [chat EXCEPT ![r].pc = IF Len(user_requests[chat[r].user_id]) >= 1
                                      THEN "rejected" ELSE "append"]
    /\ UNCHANGED <<engine, user_requests, clock, documents, analysis>>

\* line 53: user_requests[user_id].append(now); the request goes on to be answered
ChatAppend(r) ==
    /\ chat[r].pc = "append"
    /\ user_requests' = [user_requests EXCEPT ![chat[r].user_id] = Append(@, chat[r].now)]
    /\ chat' = [chat EXCEPT ![r].pc = "accepted"]
    /\ UNCHANGED <<engine, clock, documents, analysis>>

\* a second passes
Tick ==
    /\ clock < MaxTime
    /\ clock' = clock + 1
    /\ UNCHANGED <<engine, user_requests, chat, documents, analysis>>

NextChat ==
    \/ \E r \in Requests : ChatNow(r)
    \/ \E r \in Requests : ChatPrune(r)
    \/ \E r \in Requests : ChatCheck(r)
    \/ \E r \in Requests : ChatAppend(r)
    \/ Tick

SpecChat == InitChat /\ [][NextChat]_vars

\* the request passed the check of line 46
Accepted(r) == chat[r].pc \in {"append", "accepted"}

\* C29: of the /chat requests of one user at most one is accepted within
\* any window of RATE_LIMIT_SECONDS, however the requests interleave: two
\* accepted requests of the same user are at least RATE_LIMIT_SECONDS apart,
\* and a rejected request has recorded no timestamp.
OneAcceptedPerWindow ==
    /\ \A r1, r2 \in Requests :
          (r1 # r2 /\ Accepted(r1) /\ Accepted(r2) /\ chat[r1].user_id = chat[r2].user_id) =>
              \/ chat[r1].now - chat[r2].now >= RATE_LIMIT_SECONDS
              \/ chat[r2].now - chat[r1].now >= RATE_LIMIT_SECONDS
    /\ \A u \in UserIds :
          Len(user_requests[u]) <= Cardinality({r \in Requests : chat[r].pc = "accepted" /\ chat[r].user_id = u})


(***************************************************************************)
(* Upload and processing of documents (endpoints.py lines 132-224,         *)
(* document_service.py, analysis_service.py). The handlers are async def   *)
(* without an await between their database calls: each runs to its end.    *)
(***************************************************************************)
\* what llm_service.analyze_contract returns, as far as create_analysis
\* tells results apart (lines 17-27)
AnalysisResults == {"LOW", "HIGH"}

InitDocs == EngineIdle /\ InitLocals

\* POST /upload: create_document stores a new row with status UPLOADED
Upload(d) ==
    /\ documents[d] = None
    /\ \A e \in DocIds : e < d => documents[e] # None
    /\ documents' = [documents EXCEPT ![d] = Some("UPLOADED")]
    /\ UNCHANGED <<engine, user_requests, clock, chat, analysis>>

\* create_analysis: db.add(Analysis(document_id=..., ...)); db.commit()
create_analysis(rows, document_id, analysis_result) ==
    Append(rows, [id |-> Len(rows) + 1, document_id |-> document_id, risk_level |-> analysis_result])

\* POST /process/{doc_id}, the analysis succeeding: status PROCESSING, a new
\* Analysis row, status COMPLETED
ProcessCompleted(d) ==
    /\ documents[d] # None
    /\ Len(analysis) < MaxRows
    /\ \E result \in AnalysisResults : analysis' = create_analysis(analysis, d, result)
    /\ documents' = [documents EXCEPT ![d] = Some("COMPLETED")]
    /\ UNCHANGED <<engine, user_requests, clock, chat>>

\* POST /process/{doc_id}, analyze_contract raising: status PROCESSING, then
\* set_error
ProcessFailed(d) ==
    /\ documents[d] # None
    /\ documents' = [documents EXCEPT ![d] = Some("ERROR")]
    /\ UNCHANGED <<engine, user_requests, clock, chat, analysis>>

NextDocs ==
    \/ \E d \in DocIds : Upload(d)
    \/ \E d \in DocIds : ProcessCompleted(d)
    \/ \E d \in DocIds : ProcessFailed(d)

SpecDocs == InitDocs /\ [][NextDocs]_vars

\* the Analysis rows of a document
AnalysesOf(d) == {i \in DOMAIN analysis : analysis[i].document_id = d}

\* get_analysis: db.query(Analysis).filter(document_id == ...).first(), a
\* query without ORDER BY: the rows it may return
get_analysis(d) == {analysis[i] : i \in AnalysesOf(d)}

\* C30: after any sequence of uploads and process calls a document whose
\* status is COMPLETED has exactly one Analysis record, and what
\* get_analysis returns for it is the analysis of its latest successful
\* processing.
CompletedHasOneAnalysis ==
    \A d \in DocIds :
        documents[d] = Some("COMPLETED") =>
            /\ Cardinality(AnalysesOf(d)) = 1
            /\ \A row \in get_analysis(d) : \A i \in AnalysesOf(d) : analysis[i].id <= row.id

====
